---------------------------- MODULE Spec2Model ----------------------------
(***************************************************************************)
(* A model of the analytics engine of polltrends: the batched,            *)
(* anchor-normalised fetch of interest over time (scripts/fetch_trends.py),*)
(* spike detection (scripts/detect_spikes.py), keyword sentiment           *)
(* (scripts/analyse_sentiment.py) and the weekly winner                    *)
(* (scripts/weekly_analysis.py).                                           *)
(*                                                                         *)
(* Python dicts are functions (DOMAIN = the keys), lists are sequences,    *)
(* None is the empty tuple and a present value x is <<x>>.  Dates are day  *)
(* numbers: "%Y-%m-%d" strings order and compare as the days they name.    *)
(* Floats are exact rationals carried as scaled integers; round() is       *)
(* Python's round-half-to-even on that exact value.  The value sets of the *)
(* inputs below are such that the floats of the source round as the exact  *)
(* values do.                                                               *)
(***************************************************************************)
EXTENDS Integers, Sequences, FiniteSets, TLC

VARIABLES
    entities,             \* the registry: its codes, in registry order
    pc,                   \* the component that runs and its position
    i,                    \* fetch loop: number of batches already handled
    all_dfs,              \* fetch loop: code -> (date -> value)
    anchor_values_first,  \* fetch loop: None, or <<date -> value>> of batch 1
    responses,            \* what the provider returned, batch by batch
    iot_data,             \* the interest series: fetch's return value, the
                          \* input of detect_spikes and determine_winner
    spikes,               \* return value of detect_spikes
    query_arg,            \* argument of classify_query
    label,                \* return value of classify_query
    rq_data,              \* related_queries.json: None, or <<code -> lists>>
    results,              \* return value of run_sentiment_analysis
    sentiment_data,       \* sentiment_analysis.json as determine_winner reads it
    analysis,             \* return value of determine_winner
    news_data,            \* news.json: code -> list of articles
    raw_dirs,             \* data/raw: capture date -> the snapshot saved there
    proc_dirs,            \* data/processed: date -> the artifacts saved there
    runs,                 \* the pipeline runs: their position and their locals
    clock,                \* the day date.today() returns
    batch_list,           \* _batch_entities: the batches built so far
    remaining             \* _batch_entities: the codes not yet in a batch

fetchVars == <<i, all_dfs, anchor_values_first, responses>>
sentVars == <<query_arg, label, rq_data, results>>
weekVars == <<sentiment_data, analysis>>
newsVars == <<news_data>>
fsVars == <<raw_dirs, proc_dirs, runs, clock>>
batchVars == <<batch_list, remaining>>

vars == <<entities, pc, iot_data, fetchVars, spikes, sentVars, weekVars, newsVars, fsVars,
          batchVars>>

-----------------------------------------------------------------------------
(* Bounds of the model *)

MaxEntities == 7
MaxDates == 2
MaxSpikeEntities == 3
MaxTailCells == 12
MaxWords == 3
MaxQueryItems == 3
MaxWeeklyEntities == 2
MaxWeeklyDays == 15
MaxArticles == 4
MaxRuns == 2
MaxDay == 3

(* Program constants *)

MAX_ENTITIES_PER_REQUEST == 5
ROLLING_WINDOW_3 == 3          \* mutant: a 3-day window
ROLLING_WINDOW == 7
MIN_ABSOLUTE == 10
SPIKE_THRESHOLD_X10 == 20      \* SPIKE_THRESHOLD = 2.0, in tenths
TOP_SPIKES == 10               \* spikes[:10]

-----------------------------------------------------------------------------
(* Python helpers *)

None == << >>
Some(x) == <<x>>
EmptyDict == << >>

Range(s) == {s[k] : k \in 1..Len(s)}

\* dict.get(key, default)
Get(d, key, default) == IF key \in DOMAIN d THEN d[key] ELSE default

\* d1 updated with the items of d2 (d[k] = v for each item of d2)
Update(d1, d2) ==
    [k \in (DOMAIN d1) \cup (DOMAIN d2) |-> IF k \in DOMAIN d2 THEN d2[k] ELSE d1[k]]

Min(S) == CHOOSE x \in S : \A y \in S : x <= y

\* sorted(S) for a set of dates
RECURSIVE Sorted(_)
Sorted(S) == IF S = {} THEN << >> ELSE <<Min(S)>> \o Sorted(S \ {Min(S)})

\* s[:n] and s[n:]
Take(s, n) == SubSeq(s, 1, IF n < Len(s) THEN n ELSE Len(s))
Drop(s, n) == SubSeq(s, n + 1, Len(s))

\* round(num / den) for den > 0: half to even
Round(num, den) ==
    LET q == num \div den
        r == num % den
    IN  IF 2 * r > den \/ (2 * r = den /\ q % 2 = 1) THEN q + 1 ELSE q

-----------------------------------------------------------------------------
(* The state of a component that is not running *)

FetchIdle ==
    /\ i = 0
    /\ all_dfs = EmptyDict
    /\ anchor_values_first = None
    /\ responses = << >>

SpikesIdle == spikes = << >>

SentimentIdle ==
    /\ query_arg = << >>
    /\ label = ""
    /\ rq_data = None
    /\ results = None

WeeklyIdle ==
    /\ sentiment_data = EmptyDict
    /\ analysis = None

NewsIdle == news_data = EmptyDict

PipelineIdle ==
    /\ raw_dirs = EmptyDict
    /\ proc_dirs = EmptyDict
    /\ runs = << >>
    /\ clock = 0

BatchIdle ==
    /\ batch_list = << >>
    /\ remaining = << >>

-----------------------------------------------------------------------------
(* The registry *)

AllCodes ==
    <<"ALP", "LNP", "GRN", "ONP", "NAT", "IND", "TEAL", "LDP", "AJP", "UAP",
      "KAP", "JLN", "SFF", "RSN">>

Registries == {SubSeq(AllCodes, 1, n) : n \in 1..MaxEntities}

-----------------------------------------------------------------------------
(* fetch_trends.py: _batch_entities *)

RECURSIVE RestBatches(_, _)
RestBatches(anchor, rest) ==
    IF rest = << >> THEN << >>
    ELSE <<(<<anchor>> \o Take(rest, MAX_ENTITIES_PER_REQUEST - 1))>>
         \o RestBatches(anchor, Drop(rest, MAX_ENTITIES_PER_REQUEST - 1))

_batch_entities(codes) ==
    IF Len(codes) <= MAX_ENTITIES_PER_REQUEST THEN <<codes>>
    ELSE <<Take(codes, MAX_ENTITIES_PER_REQUEST)>>
         \o RestBatches(codes[1], Drop(codes, MAX_ENTITIES_PER_REQUEST))

-----------------------------------------------------------------------------
(* _batch_entities step by step: the while loop of lines 47-50.  The       *)
(* registries are the runs of consecutive codes of AllCodes.                *)

BatchRegistries ==
    {SubSeq(AllCodes, a, b) : a \in 1..Len(AllCodes), b \in 1..Len(AllCodes)}
      \ {<< >>}

\* mutant: the batch is the next MAX codes, without the anchor
NextBatchNoAnchor(anchor, rest) == Take(rest, MAX_ENTITIES_PER_REQUEST)

\* line 48: [anchor] + remaining[:batch_size]
NextBatch(anchor, rest) == <<anchor>> \o Take(rest, MAX_ENTITIES_PER_REQUEST - 1)

BatchInit ==
    /\ entities \in BatchRegistries
    /\ pc = "batch"
    /\ iot_data = EmptyDict
    /\ FetchIdle
    /\ SpikesIdle
    /\ SentimentIdle
    /\ WeeklyIdle
    /\ NewsIdle
    /\ PipelineIdle
    /\ BatchIdle

\* lines 33-46
BatchStart ==
    /\ pc = "batch"
    /\ IF Len(entities) <= MAX_ENTITIES_PER_REQUEST
       THEN /\ batch_list' = <<entities>>
            /\ pc' = "batched"
            /\ UNCHANGED remaining
       ELSE /\ batch_list' = <<Take(entities, MAX_ENTITIES_PER_REQUEST)>>
            /\ remaining' = Drop(entities, MAX_ENTITIES_PER_REQUEST)
            /\ pc' = "batch_loop"
    /\ UNCHANGED <<entities, iot_data, fetchVars, spikes, sentVars, weekVars, newsVars, fsVars>>

\* lines 47-50: one iteration
BatchLoop ==
    /\ pc = "batch_loop"
    /\ remaining # << >>
    /\ batch_list' = Append(batch_list, NextBatch(entities[1], remaining))
    /\ remaining' = Drop(remaining, MAX_ENTITIES_PER_REQUEST - 1)
    /\ UNCHANGED <<entities, pc, iot_data, fetchVars, spikes, sentVars, weekVars, newsVars, fsVars>>

\* line 52
BatchReturn ==
    /\ pc = "batch_loop"
    /\ remaining = << >>
    /\ pc' = "batched"
    /\ UNCHANGED <<entities, iot_data, fetchVars, spikes, sentVars, weekVars, newsVars, fsVars,
                   batchVars>>

BatchNext == BatchStart \/ BatchLoop \/ BatchReturn

SpecBatch == BatchInit /\ [][BatchNext]_vars

\* the interpreter runs the function on: a step that can be taken is taken
SpecBatchFair == SpecBatch /\ WF_vars(BatchNext)

-----------------------------------------------------------------------------
(* Claims about _batch_entities, under SpecBatchFair *)

Batched == pc = "batched"

\* the batches a code is in
BatchesWith(code) == {b \in DOMAIN batch_list : code \in Range(batch_list[b])}

\* the number of codes of the batches before batch b, the anchor of the
\* later ones not counted
CodesBefore(b) ==
    IF b = 1 THEN 0
    ELSE MAX_ENTITIES_PER_REQUEST + (b - 2) * (MAX_ENTITIES_PER_REQUEST - 1)

BatchStructure ==
    (Batched /\ Len(entities) > MAX_ENTITIES_PER_REQUEST)
    => /\ batch_list[1] = SubSeq(entities, 1, 5)
       /\ \A b \in 2..Len(batch_list) :
            /\ batch_list[b][1] = entities[1]
            /\ Len(batch_list[b]) >= 2
            /\ \A k \in 2..Len(batch_list[b]) :
                 batch_list[b][k] = entities[CodesBefore(b) + k - 1]
            /\ Len(batch_list[b]) = 5 \/ b = Len(batch_list)
       /\ \A b \in DOMAIN batch_list :
            /\ entities[1] \in Range(batch_list[b])
            /\ Len(batch_list[b]) <= 5
       /\ \A k \in DOMAIN entities : BatchesWith(entities[k]) # {}
       /\ \A k \in 2..Len(entities) : Cardinality(BatchesWith(entities[k])) = 1
       /\ batch_list = _batch_entities(entities)

\* C20: for a registry of n > 5 codes, batch 1 is the first 5 codes in
\* registry order; each later batch is the anchor followed by the next up
\* to 4 codes not yet batched, in registry order; every batch holds the
\* anchor and at most 5 codes; every code is in some batch and every code
\* but the anchor in exactly one.  The loop terminates for every registry.
C20_BatchesCoverRegistry == [](BatchStructure) /\ <>(Batched)

\* fourteen codes: four batches, the last one the anchor and one code;
\* and the seven codes of the specification's example
C20_Witness ==
    /\ Batched
    /\ Len(entities) = 14
    /\ Len(batch_list) = 4
    /\ batch_list[4] = <<entities[1], entities[14]>>

C20_WitnessSeven ==
    /\ Batched
    /\ Len(entities) = 7
    /\ batch_list = <<SubSeq(entities, 1, 5), <<entities[1], entities[6], entities[7]>>>>

-----------------------------------------------------------------------------
(* The provider: pytrends.interest_over_time() for one batch.  A response  *)
(* is a frame date -> row, a row is code -> value over the batch's codes;  *)
(* the frame is empty when it has no row.                                   *)

Dates == 1..MaxDates
AnchorVals == {0, 25, 35, 50}
RawVals == {0, 5, 44}

Pos(s, c) == CHOOSE k \in 1..Len(s) : s[k] = c

\* a row: the first column reads a, the k-th column reads v + k - 2
RowOf(batch, a, v) ==
    [c \in Range(batch) |-> IF c = batch[1] THEN a ELSE v + Pos(batch, c) - 2]

Rows(batch) == {RowOf(batch, a, v) : a \in AnchorVals, v \in RawVals}

Responses(batch) == UNION {[S -> Rows(batch)] : S \in SUBSET Dates}

IsEmptyDf(df) == DOMAIN df = {}

\* {dt.strftime("%Y-%m-%d"): int(row.get(code, 0)) for dt, row in df.iterrows()}
Column(df, code) == [d \in DOMAIN df |-> Get(df[d], code, 0)]

-----------------------------------------------------------------------------
(* fetch_trends.py: fetch_interest_over_time *)

\* mutant: the columns are not renamed from provider ids to codes, so every
\* row.get(code, 0) falls back to 0
SingleBatchRecordsNoRename(codes, df) ==
    LET ds == Sorted(DOMAIN df)
    IN  [k \in 1..Len(ds) |->
            [key \in {"date"} \cup Range(codes) |->
                IF key = "date" THEN ds[k] ELSE 0]]

\* the single-batch case: one record per row, every registry code read raw
SingleBatchRecords(codes, df) ==
    LET ds == Sorted(DOMAIN df)
    IN  [k \in 1..Len(ds) |->
            [key \in {"date"} \cup Range(codes) |->
                IF key = "date" THEN ds[k] ELSE Get(df[ds[k]], key, 0)]]

Result(records) == [timeframe |-> "today 3-m", geo |-> "AU", data |-> records]

\* first batch: every code of the batch stored verbatim
StoreFirst(dfs, batch, df) ==
    Update(dfs, [code \in Range(batch) |-> Column(df, code)])

(* Lines 141-142 work in binary floating point: scale is the double nearest *)
(* to anchor_first / anchor_this and raw_val * scale is rounded to a double *)
(* again before round() takes the nearest integer, halves to even.  Both    *)
(* errors are far below the distance of a quotient of two values up to 100  *)
(* from a half, so they show only when raw_val * anchor_first / anchor_this *)
(* is exactly k + 1/2: the product then lands on, above or below the half.  *)

\* floor(log2(n / d)) for n, d > 0
RECURSIVE Log2Floor(_, _)
Log2Floor(n, d) ==
    IF n >= 2 * d THEN Log2Floor(n, 2 * d) + 1
    ELSE IF n < d THEN Log2Floor(2 * n, d) - 1
    ELSE 0

\* (a * 2^s) mod b
RECURSIVE ShiftMod(_, _, _)
ShiftMod(a, s, b) == IF s = 0 THEN a % b ELSE (2 * ShiftMod(a, s - 1, b)) % b

\* the double nearest to a / b is a / b + t / (b * 2^s), 2^-s the unit of
\* its 53-bit significand: t is the remainder left by the long division,
\* rounded to nearest, ties to the even significand
DivError(a, b) ==
    LET s == 52 - Log2Floor(a, b)
        r == ShiftMod(a, s, b)
        last_bit == (2 * ShiftMod(a, s - 1, b)) \div b
    IN  IF 2 * r < b THEN 0 - r
        ELSE IF 2 * r > b THEN b - r
        ELSE IF last_bit = 0 THEN 0 - r ELSE b - r

\* int(round(raw_val * (anchor_first / anchor_this))), both anchors > 0
FloatScaled(raw_val, anchor_first, anchor_this) ==
    LET twice == 2 * raw_val * anchor_first
    IN  IF twice % anchor_this # 0 \/ (twice \div anchor_this) % 2 = 0
        THEN Round(raw_val * anchor_first, anchor_this)
        ELSE LET k == (raw_val * anchor_first) \div anchor_this
                 t == DivError(anchor_first, anchor_this)
                 \* half a unit of the product, over one unit of error
                 w == anchor_this
                      * 2^(Log2Floor(twice, 2 * anchor_this)
                           - Log2Floor(anchor_first, anchor_this))
             IN  IF 2 * raw_val * t > w THEN k + 1
                 ELSE IF \/ k >= 1 /\ 2 * raw_val * t < 0 - w
                         \/ k = 0 /\ 4 * raw_val * t < 0 - w
                      THEN k
                 ELSE IF k % 2 = 0 THEN k ELSE k + 1

\* mutant: the ratio is taken the other way round, anchor_this / anchor_first
ScaledInverse(raw_val, anchor_this, anchor_first) ==
    IF anchor_this > 0 /\ anchor_first > 0
    THEN FloatScaled(raw_val, anchor_this, anchor_first)
    ELSE raw_val

\* values[d] of one non-anchor code of a later batch
Scaled(raw_val, anchor_this, anchor_first) ==
    IF anchor_this > 0 /\ anchor_first > 0
    THEN FloatScaled(raw_val, anchor_first, anchor_this)
    ELSE raw_val

\* mutant: the anchor is not skipped, a later batch rewrites its series
NormaliseNoSkip(dfs, batch, df, anchor_code, anchor_first) ==
    LET anchor_values_this == Column(df, anchor_code)
    IN  Update(dfs,
          [code \in Range(batch) |->
             [d \in DOMAIN df |->
                Scaled(Get(df[d], code, 0),
                       Get(anchor_values_this, d, 0),
                       Get(anchor_first, d, 0))]])

\* later batch: every code but the anchor, scaled by the anchor ratio
Normalise(dfs, batch, df, anchor_code, anchor_first) ==
    LET anchor_values_this == Column(df, anchor_code)
    IN  Update(dfs,
          [code \in Range(batch) \ {anchor_code} |->
             [d \in DOMAIN df |->
                Scaled(Get(df[d], code, 0),
                       Get(anchor_values_this, d, 0),
                       Get(anchor_first, d, 0))]])

\* mutant: the records are keyed by the codes that were fetched, all_dfs
MergeRecordsFetchedOnly(codes, dfs, avf) ==
    LET all_dates == IF avf # None /\ DOMAIN avf[1] # {}
                     THEN Sorted(DOMAIN avf[1]) ELSE << >>
    IN  [k \in 1..Len(all_dates) |->
            [key \in {"date"} \cup DOMAIN dfs |->
                IF key = "date" THEN all_dates[k]
                ELSE Get(Get(dfs, key, EmptyDict), all_dates[k], 0)]]

\* mutant: one record per date that any batch returned
MergeRecordsAllDates(codes, dfs, avf) ==
    LET all_dates == Sorted(UNION {DOMAIN dfs[c] : c \in DOMAIN dfs})
    IN  [k \in 1..Len(all_dates) |->
            [key \in {"date"} \cup Range(codes) |->
                IF key = "date" THEN all_dates[k]
                ELSE Get(Get(dfs, key, EmptyDict), all_dates[k], 0)]]

\* the merge: one record per date of the first batch's anchor series
MergeRecords(codes, dfs, avf) ==
    LET all_dates == IF avf # None /\ DOMAIN avf[1] # {}
                     THEN Sorted(DOMAIN avf[1]) ELSE << >>
    IN  [k \in 1..Len(all_dates) |->
            [key \in {"date"} \cup Range(codes) |->
                IF key = "date" THEN all_dates[k]
                ELSE Get(Get(dfs, key, EmptyDict), all_dates[k], 0)]]

batches == _batch_entities(entities)

FetchInit ==
    /\ entities \in Registries
    /\ pc = "fetch"
    /\ iot_data = EmptyDict
    /\ FetchIdle
    /\ NewsIdle
    /\ PipelineIdle
    /\ BatchIdle
    /\ SpikesIdle
    /\ SentimentIdle
    /\ WeeklyIdle

\* lines 69-90
FetchSingle ==
    /\ pc = "fetch"
    /\ Len(batches) = 1
    /\ \E df \in Responses(batches[1]) :
         /\ responses' = Append(responses, df)
         /\ iot_data' = IF IsEmptyDf(df) THEN EmptyDict
                        ELSE Result(SingleBatchRecords(entities, df))
    /\ pc' = "done"
    /\ UNCHANGED <<entities, i, all_dfs, anchor_values_first, spikes, sentVars, weekVars, newsVars, fsVars, batchVars>>

\* lines 92-95
EnterLoop ==
    /\ pc = "fetch"
    /\ Len(batches) > 1
    /\ pc' = "loop"
    /\ UNCHANGED <<entities, iot_data, fetchVars, spikes, sentVars, weekVars, newsVars, fsVars, batchVars>>

\* lines 97-148: one iteration of the loop over the batches
FetchBatch ==
    /\ pc = "loop"
    /\ i < Len(batches)
    /\ \E df \in Responses(batches[i + 1]) :
         /\ responses' = Append(responses, df)
         /\ IF IsEmptyDf(df)
            THEN /\ i' = i + 1
                 /\ UNCHANGED <<pc, all_dfs, anchor_values_first>>
            ELSE IF i = 0
            THEN /\ anchor_values_first' = Some(Column(df, entities[1]))
                 /\ all_dfs' = StoreFirst(all_dfs, batches[i + 1], df)
                 /\ i' = i + 1
                 /\ UNCHANGED pc
            ELSE IF anchor_values_first = None
            THEN \* line 137: None has no attribute get
                 /\ pc' = "raised"
                 /\ UNCHANGED <<i, all_dfs, anchor_values_first>>
            ELSE /\ all_dfs' = Normalise(all_dfs, batches[i + 1], df,
                                         entities[1], anchor_values_first[1])
                 /\ i' = i + 1
                 /\ UNCHANGED <<pc, anchor_values_first>>
    /\ UNCHANGED <<entities, iot_data, spikes, sentVars, weekVars, newsVars, fsVars, batchVars>>

\* lines 150-162
Merge ==
    /\ pc = "loop"
    /\ i = Len(batches)
    /\ iot_data' = IF all_dfs = EmptyDict THEN EmptyDict
                   ELSE Result(MergeRecords(entities, all_dfs, anchor_values_first))
    /\ pc' = "done"
    /\ UNCHANGED <<entities, fetchVars, spikes, sentVars, weekVars, newsVars, fsVars, batchVars>>

FetchNext == FetchSingle \/ EnterLoop \/ FetchBatch \/ Merge

SpecFetch == FetchInit /\ [][FetchNext]_vars

-----------------------------------------------------------------------------
(* Claims about fetch_interest_over_time, under SpecFetch *)

Returned == pc = "done"
HasData(d) == "data" \in DOMAIN d
DataOf(d) == Get(d, "data", << >>)

\* C1: with more than 5 entities and a non-empty first batch, every record
\* of the merged series carries for the anchor (first code of the registry)
\* exactly the raw value batch 1 reported for it on that date; no later
\* batch overwrites or rescales it.
C1_AnchorIsBatchOneRaw ==
    (Returned /\ Len(entities) > MAX_ENTITIES_PER_REQUEST
              /\ ~IsEmptyDf(responses[1]))
    => /\ HasData(iot_data)
       /\ \A k \in DOMAIN DataOf(iot_data) :
            LET r == DataOf(iot_data)[k]
            IN  /\ r["date"] \in DOMAIN responses[1]
                /\ r[entities[1]] = responses[1][r["date"]][entities[1]]

\* a merged record whose anchor reads 50 as in batch 1, on a date where a
\* later batch reported 25 for the anchor
C1_Witness ==
    /\ Returned
    /\ Len(entities) > MAX_ENTITIES_PER_REQUEST
    /\ Len(responses) = 2
    /\ \E k \in DOMAIN DataOf(iot_data) :
         LET r == DataOf(iot_data)[k]
         IN  /\ r["date"] \in DOMAIN responses[1] \cap DOMAIN responses[2]
             /\ responses[1][r["date"]][entities[1]] = 50
             /\ responses[2][r["date"]][entities[1]] = 25
             /\ r[entities[1]] = 50

\* C2: with at most 5 entities a single batch is issued and the returned
\* series holds, for every date and entity of the response, exactly the raw
\* value of that response, with one record per date and nothing else.
C2_SingleBatchRaw ==
    (Returned /\ Len(entities) <= MAX_ENTITIES_PER_REQUEST)
    => /\ Len(responses) = 1
       /\ HasData(iot_data) <=> ~IsEmptyDf(responses[1])
       /\ Len(DataOf(iot_data)) = Cardinality(DOMAIN responses[1])
       /\ \A k \in DOMAIN DataOf(iot_data) :
            LET r == DataOf(iot_data)[k]
            IN  /\ r["date"] \in DOMAIN responses[1]
                /\ \A c \in Range(entities) :
                     r[c] = responses[1][r["date"]][c]
       /\ \A d \in DOMAIN responses[1] :
            \E k \in DOMAIN DataOf(iot_data) : DataOf(iot_data)[k]["date"] = d

\* a five-entity registry whose single response has two dates, the first
\* column reading 25 where another reads 7
C2_Witness ==
    /\ Returned
    /\ Len(entities) = MAX_ENTITIES_PER_REQUEST
    /\ Len(DataOf(iot_data)) = 2
    /\ \E k \in DOMAIN DataOf(iot_data) :
         /\ DataOf(iot_data)[k][entities[1]] = 25
         /\ DataOf(iot_data)[k][entities[4]] = 7

\* C11: in the multi-batch case an empty response from any batch, the first
\* or a later one, does not abort the run: the remaining batches are still
\* processed, a result is returned, and the entities fetched only in the
\* empty batch read 0 on every date of the result.
C11_EmptyBatchTolerated ==
    /\ pc # "raised"
    /\ (Returned /\ Len(batches) > 1)
       => /\ Len(responses) = Len(batches)
          /\ \A k \in DOMAIN DataOf(iot_data) :
               \A c \in Range(entities) :
                 (\A b \in DOMAIN responses :
                     c \in Range(batches[b]) => IsEmptyDf(responses[b]))
                 => DataOf(iot_data)[k][c] = 0

\* the run aborted: batch 1 came back empty, a later batch did not, and
\* line 137 calls .get on the None left in anchor_values_first
C11_AbortedAfterEmptyFirstBatch ==
    /\ pc = "raised"
    /\ Len(batches) > 1
    /\ IsEmptyDf(responses[1])
    /\ ~IsEmptyDf(responses[Len(responses)])
    /\ anchor_values_first = None

\* the anchor's value in batch 1 on date d, 0 when batch 1 has no such date
FirstAnchor(d) == Get(anchor_values_first[1], d, 0)

\* batch b was normalised against the anchor series of batch 1
Normalised(b) ==
    /\ b >= 2
    /\ b <= i
    /\ b <= Len(responses)
    /\ ~IsEmptyDf(responses[b])
    /\ anchor_values_first # None

\* k is an integer nearest to num / den, den > 0: round(num / den), with
\* either neighbour allowed where num / den is exactly a half
IsNearest(k, num, den) ==
    /\ 2 * (k * den - num) <= den
    /\ 2 * (num - k * den) <= den

\* C21: for every later batch b, every date d and every non-anchor entity
\* e of b with raw value v, the value stored for (d, e) is
\* round(v * A1[d] / Ab[d]) when the batch-1 anchor value A1[d] and the
\* batch-b anchor value Ab[d] are both > 0, and the raw v otherwise, also
\* when batch 1 has no value for d; A1 = 50, Ab = 25 doubles the value.
C21_StoredIsRoundedRatio ==
    \A b \in DOMAIN responses :
      Normalised(b)
      => \A d \in DOMAIN responses[b] :
           \A e \in Range(batches[b]) \ {entities[1]} :
             LET v == responses[b][d][e]
                 Ab == responses[b][d][entities[1]]
             IN  /\ (FirstAnchor(d) > 0 /\ Ab > 0)
                    => IsNearest(all_dfs[e][d], v * FirstAnchor(d), Ab)
                 /\ (FirstAnchor(d) <= 0 \/ Ab <= 0) => all_dfs[e][d] = v
                 /\ (FirstAnchor(d) = 50 /\ Ab = 25) => all_dfs[e][d] = 2 * v

\* the example of the ratio 2: raw 5 with anchor 50 in batch 1 and 25 in
\* the later batch is stored as 10, and on another date of the same batch
\* the raw value passes through where the batch's anchor reads 0
C21_Witness ==
    \E b \in DOMAIN responses :
      /\ Normalised(b)
      /\ \E d1, d2 \in DOMAIN responses[b] :
           \E e \in Range(batches[b]) \ {entities[1]} :
             /\ responses[b][d1][e] = 5
             /\ responses[b][d1][entities[1]] = 25
             /\ FirstAnchor(d1) = 50
             /\ all_dfs[e][d1] = 10
             /\ responses[b][d2][e] = 5
             /\ responses[b][d2][entities[1]] = 0
             /\ all_dfs[e][d2] = 5

\* raw value 45 with anchor 35 in batch 1 and 50 in the later batch: the
\* quotient is 31.5, and the floats of lines 141-142 store 31
C21_WitnessHalf ==
    \E b \in DOMAIN responses :
      /\ Normalised(b)
      /\ \E d \in DOMAIN responses[b] :
           \E e \in Range(batches[b]) \ {entities[1]} :
             /\ responses[b][d][e] = 45
             /\ responses[b][d][entities[1]] = 50
             /\ FirstAnchor(d) = 35
             /\ all_dfs[e][d] = 31

\* a date that batch 1 did not return: the later batch's value is kept raw
C21_WitnessMissingDate ==
    \E b \in DOMAIN responses :
      /\ Normalised(b)
      /\ \E d \in DOMAIN responses[b] \ DOMAIN anchor_values_first[1] :
           \E e \in Range(batches[b]) \ {entities[1]} :
             /\ responses[b][d][e] = 45
             /\ responses[b][d][entities[1]] = 25
             /\ all_dfs[e][d] = 45

\* C22: in the multi-batch case the merged series has exactly one record
\* per date of batch 1's response, in ascending date order, and none for a
\* date that only a later batch returned; on a date of batch 1 that a later
\* batch did not return, that batch's non-anchor entities read 0.
C22_MergedOnBatchOneDates ==
    (Returned /\ Len(batches) > 1)
    => LET data == DataOf(iot_data)
       IN  /\ {data[k]["date"] : k \in DOMAIN data} = DOMAIN responses[1]
           /\ Len(data) = Cardinality(DOMAIN responses[1])
           /\ \A k \in DOMAIN data :
                k < Len(data) => data[k]["date"] < data[k + 1]["date"]
           /\ \A k \in DOMAIN data :
                \A b \in 2..Len(responses) :
                  data[k]["date"] \notin DOMAIN responses[b]
                  => \A e \in Range(batches[b]) \ {entities[1]} :
                       data[k][e] = 0

\* batch 1 returned day 1 alone and batch 2 day 2 alone, with a value above
\* 0 for its first entity: one record, of day 1, where that entity reads 0
C22_Witness ==
    /\ Returned
    /\ Len(batches) = 2
    /\ DOMAIN responses[1] = {1}
    /\ DOMAIN responses[2] = {2}
    /\ responses[2][2][batches[2][2]] > 0
    /\ Len(DataOf(iot_data)) = 1
    /\ DataOf(iot_data)[1]["date"] = 1
    /\ DataOf(iot_data)[1][batches[2][2]] = 0

\* both batches returned both days: two records, day 1 before day 2
C22_WitnessTwoDates ==
    /\ Returned
    /\ Len(batches) = 2
    /\ DOMAIN responses[1] = {1, 2}
    /\ DOMAIN responses[2] = {1, 2}
    /\ Len(DataOf(iot_data)) = 2
    /\ DataOf(iot_data)[1]["date"] = 1
    /\ DataOf(iot_data)[2]["date"] = 2

-----------------------------------------------------------------------------
(* detect_spikes.py: detect_spikes.  rolling_avg and ratio are kept in     *)
(* tenths: round(x, 1) of the source is the integer Round(10 * x).          *)

\* [r.get(code, 0) for r in records]
ValuesOf(records, code) == [k \in 1..Len(records) |-> Get(records[k], code, 0)]

RECURSIVE Sum(_)
Sum(s) == IF s = << >> THEN 0 ELSE s[1] + Sum(Tail(s))

\* mutant: the window takes in the current day, values[i - 6:i + 1]
WindowInclusive(values, idx) == SubSeq(values, idx - ROLLING_WINDOW + 2, idx + 1)

\* values[i - ROLLING_WINDOW:i] for the 0-based index i of the source
Window(values, idx) == SubSeq(values, idx - ROLLING_WINDOW + 1, idx)

\* the spike test of lines 35-39 at 0-based index idx:
\* rolling_avg > 0, current >= MIN_ABSOLUTE, current / rolling_avg >= 2.0
IsSpike(values, idx) ==
    LET current == values[idx + 1]
        window == Window(values, idx)
    IN  /\ Len(window) > 0
        /\ Sum(window) > 0
        /\ current >= MIN_ABSOLUTE
        /\ 10 * current * Len(window) >= SPIKE_THRESHOLD_X10 * Sum(window)

\* the record appended at lines 40-49 (party_name, a display string of the
\* registry, is left out)
SpikeRecord(records, code, values, idx) ==
    LET current == values[idx + 1]
        window == Window(values, idx)
    IN  [date |-> records[idx + 1]["date"],
         party_code |-> code,
         value |-> current,
         rolling_avg |-> Round(10 * Sum(window), Len(window)),
         ratio |-> Round(10 * current * Len(window), Sum(window)),
         explanation |-> None,
         news |-> << >>]

\* the inner loop: for i in range(ROLLING_WINDOW, len(values))
RECURSIVE SpikesFrom(_, _, _, _)
SpikesFrom(records, code, values, idx) ==
    IF idx >= Len(values) THEN << >>
    ELSE (IF IsSpike(values, idx)
          THEN <<SpikeRecord(records, code, values, idx)>> ELSE << >>)
         \o SpikesFrom(records, code, values, idx + 1)

\* the outer loop: for code in codes
RECURSIVE SpikesOfCodes(_, _)
SpikesOfCodes(records, codes) ==
    IF codes = << >> THEN << >>
    ELSE SpikesFrom(records, Head(codes), ValuesOf(records, Head(codes)),
                    ROLLING_WINDOW)
         \o SpikesOfCodes(records, Tail(codes))

\* mutant: reverse=True is dropped, the sort is ascending
InsertByRatioAscending(sorted, x) ==
    LET n == Cardinality({k \in 1..Len(sorted) : sorted[k].ratio <= x.ratio})
    IN  SubSeq(sorted, 1, n) \o <<x>> \o SubSeq(sorted, n + 1, Len(sorted))

\* list.sort(key=ratio, reverse=True): stable, equal ratios keep their order
InsertByRatio(sorted, x) ==
    LET n == Cardinality({k \in 1..Len(sorted) : sorted[k].ratio >= x.ratio})
    IN  SubSeq(sorted, 1, n) \o <<x>> \o SubSeq(sorted, n + 1, Len(sorted))

RECURSIVE SortFrom(_, _)
SortFrom(sorted, rest) ==
    IF rest = << >> THEN sorted
    ELSE SortFrom(InsertByRatio(sorted, Head(rest)), Tail(rest))

SortByRatioDesc(s) == SortFrom(<< >>, s)

\* a value that is not a number (a string, null): sum() and >= raise
\* TypeError on it.  It is written as a value no interest series holds.
NonNumeric == -1

\* detect_spikes raises TypeError: some window of line 34 holds a value that
\* is not a number (sum, line 35), or the rolling average is positive and
\* the current value is not a number (line 37)
DetectRaises(data, codes) ==
    LET records == Get(data, "data", << >>)
    IN  /\ Len(records) >= ROLLING_WINDOW + 1
        /\ \E c \in Range(codes) :
             LET values == ValuesOf(records, c)
             IN  \E idx \in ROLLING_WINDOW..(Len(values) - 1) :
                   LET window == Window(values, idx)
                   IN  \/ NonNumeric \in Range(window)
                       \/ Sum(window) > 0 /\ values[idx + 1] = NonNumeric

\* mutant: the list is cut to 10 before it is sorted
detect_spikesCutFirst(data, codes) ==
    LET records == Get(data, "data", << >>)
    IN  IF Len(records) < ROLLING_WINDOW + 1 THEN << >>
        ELSE SortByRatioDesc(Take(SpikesOfCodes(records, codes), TOP_SPIKES))

detect_spikes(data, codes) ==
    LET records == Get(data, "data", << >>)
    IN  IF Len(records) < ROLLING_WINDOW + 1 THEN << >>
        ELSE Take(SortByRatioDesc(SpikesOfCodes(records, codes)), TOP_SPIKES)

-----------------------------------------------------------------------------
(* The series handed to detect_spikes: base days on which every entity     *)
(* keeps its base value (none, or a full rolling window of them), followed *)
(* by free days whose values are drawn per entity and day.                  *)

SpikeBaseVals == {0, 1}
SpikeTailVals == {5, 40}

SpikeRegistries == {SubSeq(AllCodes, 1, n) : n \in 1..MaxSpikeEntities}

SeriesOf(codes, nb, base, tail) ==
    [d \in 1..(nb + Len(tail)) |->
        [key \in {"date"} \cup Range(codes) |->
            IF key = "date" THEN d
            ELSE IF d <= nb THEN base[key] ELSE tail[d - nb][key]]]

\* scenario 1 of the specification: [10]*7 + [40] and [5]*7 + [6]
ExampleRegistry == <<"ALP", "LNP">>
ExampleSeries ==
    [d \in 1..8 |->
        [key \in {"date", "ALP", "LNP"} |->
            IF key = "date" THEN d
            ELSE IF key = "ALP" THEN (IF d <= 7 THEN 10 ELSE 40)
            ELSE (IF d <= 7 THEN 5 ELSE 6)]]

SpikesInit ==
    /\ pc = "spikes"
    /\ FetchIdle
    /\ NewsIdle
    /\ PipelineIdle
    /\ BatchIdle
    /\ SpikesIdle
    /\ SentimentIdle
    /\ WeeklyIdle
    /\ \/ /\ entities \in SpikeRegistries
          /\ \E t \in 0..(MaxTailCells \div Len(entities)) :
               \E tail \in [1..t -> [Range(entities) -> SpikeTailVals]] :
                 \/ iot_data = Result(SeriesOf(entities, 0, << >>, tail))
                 \/ \E base \in [Range(entities) -> SpikeBaseVals] :
                      iot_data = Result(SeriesOf(entities, ROLLING_WINDOW, base, tail))
       \/ /\ entities \in SpikeRegistries
          /\ iot_data = EmptyDict
       \/ /\ entities = ExampleRegistry
          /\ iot_data = Result(ExampleSeries)

\* run_spike_detection, line 119
DetectSpikes ==
    /\ pc = "spikes"
    /\ IF DetectRaises(iot_data, entities)
       THEN /\ pc' = "raised"
            /\ UNCHANGED spikes
       ELSE /\ spikes' = detect_spikes(iot_data, entities)
            /\ pc' = "detected"
    /\ UNCHANGED <<entities, iot_data, fetchVars, sentVars, weekVars, newsVars, fsVars, batchVars>>

SpikesNext == DetectSpikes

SpecSpikes == SpikesInit /\ [][SpikesNext]_vars

-----------------------------------------------------------------------------
(* Claims about detect_spikes, under SpecSpikes *)

Detected == pc = "detected"

\* the (entity, day) pairs of the input that meet the spike criterion,
\* stated on the input alone: day is the 1-based position of the record
SumOver(values, from, to) == Sum(SubSeq(values, from, to))

Qualifies(records, code, day) ==
    LET values == ValuesOf(records, code)
        before == SumOver(values, day - 7, day - 1)
    IN  /\ day >= 8
        /\ before > 0
        /\ values[day] >= 10
        /\ 7 * values[day] >= 2 * before

QualifyingPairs ==
    {p \in Range(entities) \X (1..Len(DataOf(iot_data))) :
        Qualifies(DataOf(iot_data), p[1], p[2])}

\* C3: detect_spikes returns at most 10 records and the returned sequence
\* is non-increasing in the recorded ratio.
C3_AtMostTenDescending ==
    Detected
    => /\ Len(spikes) <= 10
       /\ \A k \in 1..(Len(spikes) - 1) : spikes[k].ratio >= spikes[k + 1].ratio

\* more than 10 pairs qualify, 10 are returned, and their ratios differ
C3_Witness ==
    /\ Detected
    /\ Cardinality(QualifyingPairs) > 10
    /\ Len(spikes) = 10
    /\ spikes[1].ratio > spikes[10].ratio

\* C4: a series of fewer than 8 records (an empty or absent data list
\* included) yields the empty list, whatever its values and the registry.
C4_ShortSeriesNoSpikes ==
    (Detected /\ Len(DataOf(iot_data)) < 8) => spikes = << >>

\* seven records ending in a jump from 5 to 40, and nothing returned
C4_Witness ==
    /\ Detected
    /\ Len(DataOf(iot_data)) = 7
    /\ DataOf(iot_data)[6][entities[1]] = 5
    /\ DataOf(iot_data)[7][entities[1]] = 40
    /\ spikes = << >>

\* C5: every returned record for entity e at record index i has i >= 7, a
\* mean > 0 over the 7 records strictly before i (the value at i excluded),
\* a value >= 10 that is at least 2.0 times that mean; a day preceded by
\* seven zeros is never flagged.  For [10]*7 + [40] and [5]*7 + [6] exactly
\* one spike is returned: first entity, day 8, rolling_avg 10, ratio 4.0.
C5_SpikeCriterion ==
    Detected
    => /\ \A k \in DOMAIN spikes :
            \E day \in 1..Len(DataOf(iot_data)) :
               /\ DataOf(iot_data)[day]["date"] = spikes[k].date
               /\ spikes[k].party_code \in Range(entities)
               /\ spikes[k].value = Get(DataOf(iot_data)[day], spikes[k].party_code, 0)
               /\ Qualifies(DataOf(iot_data), spikes[k].party_code, day)
       /\ (entities = ExampleRegistry /\ DataOf(iot_data) = ExampleSeries)
          => spikes = << [date |-> 8, party_code |-> "ALP", value |-> 40,
                          rolling_avg |-> 100, ratio |-> 40,
                          explanation |-> None, news |-> << >>] >>

\* the scenario of the specification has run and flagged its one spike,
\* and elsewhere a day of 40 after seven zeros went unflagged
C5_Witness ==
    /\ Detected
    /\ entities = ExampleRegistry
    /\ DataOf(iot_data) = ExampleSeries
    /\ Len(spikes) = 1

C5_WitnessZeroWindow ==
    /\ Detected
    /\ Len(DataOf(iot_data)) >= 9
    /\ SumOver(ValuesOf(DataOf(iot_data), entities[1]), 1, 7) = 0
    /\ DataOf(iot_data)[8][entities[1]] = 40
    /\ \E k \in DOMAIN spikes : spikes[k].date = 9
    /\ \A k \in DOMAIN spikes : spikes[k].date # 8

\* the ratio detect_spikes records for a qualifying pair, in tenths
RecordedRatio(p) ==
    LET values == ValuesOf(DataOf(iot_data), p[1])
    IN  Round(10 * values[p[2]] * 7, SumOver(values, p[2] - 7, p[2] - 1))

\* the (entity, day) pairs of the returned records
ReturnedPairs == {<<spikes[k].party_code, spikes[k].date>> : k \in DOMAIN spikes}

\* C23: detect_spikes returns the top 10 of all qualifying (entity, day)
\* pairs across all entities: one record per returned pair, all pairs
\* when at most 10 qualify, and when more than 10 qualify, 10 of them,
\* no omitted pair having a recorded ratio strictly greater than that of a
\* returned spike.
C23_TopTenOfAllPairs ==
    Detected
    => /\ ReturnedPairs \subseteq QualifyingPairs
       /\ Cardinality(ReturnedPairs) = Len(spikes)
       /\ Cardinality(QualifyingPairs) <= 10 => ReturnedPairs = QualifyingPairs
       /\ Cardinality(QualifyingPairs) > 10
          => /\ Len(spikes) = 10
             /\ \A p \in QualifyingPairs \ ReturnedPairs :
                  \A k \in DOMAIN spikes : RecordedRatio(p) <= spikes[k].ratio

\* twelve pairs qualify over three entities; the two left out are not of
\* the first entity and their ratio is below that of the first nine returned
C23_Witness ==
    /\ Detected
    /\ Len(entities) = 3
    /\ Cardinality(QualifyingPairs) = 12
    /\ Len(spikes) = 10
    /\ Cardinality(QualifyingPairs \ ReturnedPairs) = 2
    /\ \A p \in QualifyingPairs \ ReturnedPairs :
         /\ p[1] # entities[1]
         /\ RecordedRatio(p) < spikes[9].ratio

\* between 2 and 10 pairs qualify, of more than one entity, and all of
\* them are returned
C23_WitnessAll ==
    /\ Detected
    /\ Cardinality(QualifyingPairs) \in 2..10
    /\ Len(spikes) = Cardinality(QualifyingPairs)
    /\ \E j, k \in DOMAIN spikes : spikes[j].party_code # spikes[k].party_code

-----------------------------------------------------------------------------
(* Dates as text.  A "date" field of a record or a spike, the day number n *)
(* of the model, stands for the text strftime writes for the n-th day      *)
(* after the epoch; an article carries its date as text, the sequence of   *)
(* its characters, and the empty sequence stands for null and for "".       *)

IsLeap(y) == (y % 4 = 0 /\ y % 100 # 0) \/ y % 400 = 0

DaysInMonth(y, m) ==
    IF m = 2 THEN (IF IsLeap(y) THEN 29 ELSE 28)
    ELSE IF m \in {4, 6, 9, 11} THEN 30 ELSE 31

RECURSIVE DaysBeforeMonth(_, _)
DaysBeforeMonth(y, m) ==
    IF m = 1 THEN 0 ELSE DaysBeforeMonth(y, m - 1) + DaysInMonth(y, m - 1)

DaysBeforeYear(y) ==
    LET p == y - 1 IN 365 * p + (p \div 4) - (p \div 100) + (p \div 400)

\* date(y, m, d).toordinal(): differences of ordinals are timedelta.days
toordinal(y, m, d) == DaysBeforeYear(y) + DaysBeforeMonth(y, m) + d

Digits == <<"0", "1", "2", "3", "4", "5", "6", "7", "8", "9">>

IsDigit(c) == c \in Range(Digits)
DigitVal(c) == (CHOOSE k \in 1..10 : Digits[k] = c) - 1
AllDigits(s) == \A k \in DOMAIN s : IsDigit(s[k])

RECURSIVE NumVal(_)
NumVal(s) ==
    IF s = << >> THEN 0
    ELSE 10 * NumVal(SubSeq(s, 1, Len(s) - 1)) + DigitVal(s[Len(s)])

\* the decimal digits of n, zero-padded to width w
RECURSIVE Pad(_, _)
Pad(n, w) == IF w = 0 THEN << >> ELSE Pad(n \div 10, w - 1) \o <<Digits[(n % 10) + 1]>>

\* "%04d-%02d-%02d" % (y, m, d)
DateText(y, m, d) == Pad(y, 4) \o <<"-">> \o Pad(m, 2) \o <<"-">> \o Pad(d, 2)

\* the years the series of the model fall in
CalendarYears == {2024}

\* date.fromordinal(ord).strftime("%Y-%m-%d")
strftime(ord) ==
    LET t == CHOOSE t \in CalendarYears \X (1..12) \X (1..31) :
                 /\ t[3] <= DaysInMonth(t[1], t[2])
                 /\ toordinal(t[1], t[2], t[3]) = ord
    IN  DateText(t[1], t[2], t[3])

\* datetime.strptime(s, "%Y-%m-%d").date(): None stands for ValueError, else
\* <<ordinal>>.  Four digits of year, one or two of month and of day, and the
\* day must exist in that month.
strptime(s) ==
    LET dashes == {k \in DOMAIN s : s[k] = "-"}
    IN  IF Cardinality(dashes) # 2 THEN None
        ELSE LET a == Min(dashes)
                 b == Min(dashes \ {a})
                 ys == SubSeq(s, 1, a - 1)
                 ms == SubSeq(s, a + 1, b - 1)
                 ds == SubSeq(s, b + 1, Len(s))
             IN  IF /\ Len(ys) = 4 /\ AllDigits(ys)
                    /\ Len(ms) \in 1..2 /\ AllDigits(ms)
                    /\ Len(ds) \in 1..2 /\ AllDigits(ds)
                    /\ NumVal(ys) >= 1
                    /\ NumVal(ms) \in 1..12
                    /\ NumVal(ds) >= 1
                    /\ NumVal(ds) <= DaysInMonth(NumVal(ys), NumVal(ms))
                 THEN Some(toordinal(NumVal(ys), NumVal(ms), NumVal(ds)))
                 ELSE None

\* day number 1 of a series is 2024-02-22
EpochOrdinal == toordinal(2024, 2, 21)

\* the "date" text of the record or spike of day number n
DateOfDay(n) == strftime(EpochOrdinal + n)

-----------------------------------------------------------------------------
(* detect_spikes.py: match_news_to_spikes and run_spike_detection *)

MATCH_DAYS_3 == 3
MATCH_DAYS == 2                \* delta <= 2
MAX_NEWS == 3                  \* matching[:3]
FALLBACK_EXPLANATION == "Significant spike in search interest"

Abs(x) == IF x < 0 THEN -x ELSE x

\* the record appended at lines 79-84
Project(article) ==
    [title |-> article.title,
     source |-> Get(article, "source", ""),
     url |-> Get(article, "url", ""),
     date |-> article.date]

\* lines 69-78: the article has a date, it parses, and it lies within
\* MATCH_DAYS days of the spike
Qualifying(article, spike_date) ==
    /\ Get(article, "date", << >>) # << >>
    /\ strptime(article.date) # None
    /\ Abs(strptime(article.date)[1] - spike_date) <= MATCH_DAYS

\* mutant: the explanation is the headline of the last retained article
MatchSpikeLastTitle(spike, news) ==
    LET spike_date == strptime(DateOfDay(spike.date))[1]
        articles == Get(news, spike.party_code, << >>)
        selected == SelectSeq(articles, LAMBDA a : Qualifying(a, spike_date))
        matching == [k \in 1..Len(selected) |-> Project(selected[k])]
        kept == Take(matching, MAX_NEWS)
    IN  [spike EXCEPT
           !.news = kept,
           !.explanation = Some(IF matching # << >> THEN kept[Len(kept)].title
                                ELSE FALLBACK_EXPLANATION)]

\* one iteration of the loop of lines 62-92
MatchSpike(spike, news) ==
    LET spike_date == strptime(DateOfDay(spike.date))[1]
        articles == Get(news, spike.party_code, << >>)
        selected == SelectSeq(articles, LAMBDA a : Qualifying(a, spike_date))
        matching == [k \in 1..Len(selected) |-> Project(selected[k])]
    IN  [spike EXCEPT
           !.news = Take(matching, MAX_NEWS),
           !.explanation = Some(IF matching # << >> THEN matching[1].title
                                ELSE FALLBACK_EXPLANATION)]

\* mutant: a spike whose entity has no articles is left as it was
match_news_to_spikesSkipMissing(spks, news) ==
    [k \in 1..Len(spks) |->
        IF Get(news, spks[k].party_code, << >>) = << >> THEN spks[k]
        ELSE MatchSpike(spks[k], news)]

\* mutant: the retained articles are added to those a spike already has
match_news_to_spikesAccumulating(spks, news) ==
    [k \in 1..Len(spks) |->
        [MatchSpike(spks[k], news) EXCEPT
           !.news = spks[k].news \o MatchSpike(spks[k], news).news]]

\* mutant: only the spikes that were matched to an article are returned
match_news_to_spikesMatchedOnly(spks, news) ==
    SelectSeq([k \in 1..Len(spks) |-> MatchSpike(spks[k], news)],
              LAMBDA spike : spike.news # << >>)

match_news_to_spikes(spks, news) ==
    [k \in 1..Len(spks) |-> MatchSpike(spks[k], news)]

-----------------------------------------------------------------------------
(* news.json as fetch_news writes it: per code a list of articles with a   *)
(* title, a source, a url, a date and the code.  The date is the day text  *)
(* of the feed's pubDate, null without one, and the pubDate as it came     *)
(* when it is in another format.  The series are a week at 10 followed by  *)
(* up to two free days: the spikes fall on 2024-02-29 and 2024-03-01.       *)

Headlines ==
    <<"Budget handed down", "Leader resigns", "Poll shock",
      "Preference deal", "By-election called", "Inquiry opens">>

ArticleDates ==
    { << >>,
      <<"F", "r", "i", ",", " ", "2", "1", " ", "F", "e", "b">>,
      DateText(2024, 2, 30),
      DateText(2024, 2, 27),
      <<"2", "0", "2", "4", "-", "3", "-", "1">>,
      DateText(2024, 3, 3) }

\* the k-th article of a feed; an entry written by hand has no source or url
ArticleOf(k, date, code) ==
    IF Len(date) = 8
    THEN [title |-> Headlines[((k - 1) % Len(Headlines)) + 1],
          date |-> date, party_code |-> code]
    ELSE [title |-> Headlines[((k - 1) % Len(Headlines)) + 1],
          source |-> "ABC News", url |-> "https://news.google.com/articles/1",
          date |-> date, party_code |-> code]

ArticleLists(code) ==
    UNION {{[k \in 1..n |-> ArticleOf(k, f[k], code)] : f \in [1..n -> ArticleDates]}
           : n \in 0..MaxArticles}

\* the list of the second entity: the empty list, or one article of the day
\* after the first spike
OtherLists(code) ==
    {<< >>,
     <<[title |-> "Coalition replies", source |-> "SBS", url |-> "",
        date |-> DateText(2024, 3, 1), party_code |-> code]>>}

NewsFeeds(codes) ==
    UNION {{[c \in present |-> IF c = codes[1] THEN first ELSE other]
              : first \in ArticleLists(codes[1]), other \in OtherLists(codes[2])}
           : present \in SUBSET Range(codes)}

NewsTails ==
    {<< >>,
     <<[ALP |-> 40, LNP |-> 5]>>,
     <<[ALP |-> 40, LNP |-> 40]>>,
     <<[ALP |-> 5, LNP |-> 5], [ALP |-> 40, LNP |-> 5]>>,
     <<[ALP |-> 40, LNP |-> 40], [ALP |-> 40, LNP |-> 40]>>}

NewsInit ==
    /\ pc = "run_spike_detection"
    /\ entities = ExampleRegistry
    /\ \E tail \in NewsTails :
         iot_data = Result(SeriesOf(entities, ROLLING_WINDOW,
                                    [c \in Range(entities) |-> 10], tail))
    /\ news_data \in NewsFeeds(entities)
    /\ FetchIdle
    /\ SpikesIdle
    /\ SentimentIdle
    /\ WeeklyIdle
    /\ PipelineIdle
    /\ BatchIdle

\* run_spike_detection, lines 119-126
RunSpikeDetection ==
    /\ pc = "run_spike_detection"
    /\ IF DetectRaises(iot_data, entities)
       THEN /\ pc' = "raised"
            /\ UNCHANGED spikes
       ELSE /\ spikes' = match_news_to_spikes(detect_spikes(iot_data, entities),
                                             news_data)
            /\ pc' = "matched"
    /\ UNCHANGED <<entities, iot_data, fetchVars, sentVars, weekVars, newsVars, fsVars, batchVars>>

NewsNext == RunSpikeDetection

SpecNews == NewsInit /\ [][NewsNext]_vars

-----------------------------------------------------------------------------
(* Claims about match_news_to_spikes, under SpecNews *)

Matched == pc = "matched"

ArticlesOf(code) == Get(news_data, code, << >>)

\* the spike without what match_news_to_spikes sets
Unmatched(spike) == [spike EXCEPT !.news = << >>, !.explanation = None]

\* C12: match_news_to_spikes does not fail on missing news: a spike whose
\* entity code is absent from the news mapping, or mapped to an empty list,
\* gets the fallback explanation and an empty news list, and the remaining
\* spikes are processed all the same.
C12_MissingNewsFallsBack ==
    Matched
    => /\ Len(spikes) = Len(detect_spikes(iot_data, entities))
       /\ \A k \in DOMAIN spikes :
            /\ Unmatched(spikes[k]) = detect_spikes(iot_data, entities)[k]
            /\ spikes[k].explanation # None
            /\ ArticlesOf(spikes[k].party_code) = << >>
               => /\ spikes[k].explanation = Some(FALLBACK_EXPLANATION)
                  /\ spikes[k].news = << >>

\* the first spike's entity is absent from the mapping, the second spike is
\* matched to its article all the same
C12_Witness ==
    /\ Matched
    /\ Len(spikes) = 2
    /\ spikes[1].party_code \notin DOMAIN news_data
    /\ spikes[1].explanation = Some(FALLBACK_EXPLANATION)
    /\ spikes[1].news = << >>
    /\ spikes[2].news # << >>

C12_WitnessEmptyList ==
    /\ Matched
    /\ Len(spikes) >= 1
    /\ spikes[1].party_code \in DOMAIN news_data
    /\ news_data[spikes[1].party_code] = << >>
    /\ spikes[1].explanation = Some(FALLBACK_EXPLANATION)

\* the positions, in the feed of a spike's own entity, of the articles whose
\* date is a real day written YYYY-MM-DD at most 2 days from the spike's day
NearPositions(spike) ==
    LET feed == ArticlesOf(spike.party_code)
    IN  {k \in DOMAIN feed :
           /\ "date" \in DOMAIN feed[k]
           /\ strptime(feed[k].date) # None
           /\ strptime(feed[k].date)[1] - (EpochOrdinal + spike.date) \in -2..2}

C17_WitnessCut ==
    /\ Matched
    /\ \E s \in DOMAIN spikes :
         /\ Cardinality(NearPositions(spikes[s])) = 4
         /\ Len(spikes[s].news) = 3

C17_WitnessOtherEntity ==
    /\ Matched
    /\ Len(spikes) = 1
    /\ spikes[1].party_code = "ALP"
    /\ spikes[1].news = << >>
    /\ "LNP" \in DOMAIN news_data
    /\ news_data["LNP"] # << >>

C18_WitnessFallback ==
    /\ Matched
    /\ \E k \in DOMAIN spikes :
         /\ ArticlesOf(spikes[k].party_code) # << >>
         /\ spikes[k].news = << >>
         /\ spikes[k].explanation = Some(FALLBACK_EXPLANATION)

\* C27: every record emitted by detect_spikes has explanation null and an
\* empty news list; match_news_to_spikes changes only the explanation and
\* the news of each spike: date, entity code, value, rolling_avg and ratio
\* stay as they were, and so do the number and the order of the spikes.
C27_OnlyExplanationAndNewsChange ==
    Matched
    => LET emitted == detect_spikes(iot_data, entities)
       IN  /\ \A k \in DOMAIN emitted :
                /\ emitted[k].explanation = None
                /\ emitted[k].news = << >>
           /\ Len(spikes) = Len(emitted)
           /\ \A k \in DOMAIN spikes :
                /\ DOMAIN spikes[k] = DOMAIN emitted[k]
                /\ \A field \in DOMAIN spikes[k] \ {"explanation", "news"} :
                     spikes[k][field] = emitted[k][field]
                /\ {"date", "party_code", "value", "rolling_avg", "ratio"}
                     \subseteq DOMAIN spikes[k]

\* two spikes of 40 after a week at 10, the first entity's first: the
\* first gets an article and its headline, the second the fallback text,
\* and both keep their place and their figures
C27_Witness ==
    /\ Matched
    /\ Len(spikes) = 2
    /\ spikes[1].party_code = entities[1]
    /\ spikes[2].party_code = entities[2]
    /\ \A k \in 1..2 :
         /\ spikes[k].date = ROLLING_WINDOW + 1
         /\ spikes[k].value = 40
         /\ spikes[k].rolling_avg = 100
         /\ spikes[k].ratio = 40
    /\ spikes[1].news # << >>
    /\ spikes[1].explanation = Some(spikes[1].news[1].title)
    /\ spikes[2].news = << >>
    /\ spikes[2].explanation = Some(FALLBACK_EXPLANATION)

\* C28: match_news_to_spikes attaches to a spike only articles of that
\* party published on the day before, the day of, or the day after the
\* spike, as its docstring states.
C28_WithinOneDay ==
    Matched
    => \A s \in DOMAIN spikes : \A j \in DOMAIN spikes[s].news :
         LET a == spikes[s].news[j]
             feed == ArticlesOf(spikes[s].party_code)
         IN  /\ \E k \in DOMAIN feed :
                  /\ feed[k].title = a.title
                  /\ feed[k].date = a.date
                  /\ feed[k].party_code = spikes[s].party_code
             /\ strptime(a.date) # None
             /\ Abs(strptime(a.date)[1] - (EpochOrdinal + spikes[s].date)) <= 1

\* a spike on 2024-02-29 with an article of 2024-02-27 attached
C28_TwoDaysAway ==
    /\ Matched
    /\ \E s \in DOMAIN spikes :
         /\ DateOfDay(spikes[s].date) = DateText(2024, 2, 29)
         /\ \E j \in DOMAIN spikes[s].news :
              spikes[s].news[j].date = DateText(2024, 2, 27)

-----------------------------------------------------------------------------
(* analyse_sentiment.py: the lexicons and classify_query.  A Python str is *)
(* the sequence of its characters.                                          *)

NEGATIVE_KEYWORDS == <<
    <<"s", "c", "a", "n", "d", "a", "l">>,
    <<"c", "o", "r", "r", "u", "p", "t", "i", "o", "n">>,
    <<"f", "a", "i", "l">>,
    <<"c", "r", "i", "s", "i", "s">>,
    <<"r", "e", "s", "i", "g", "n">>,
    <<"s", "a", "c", "k">>,
    <<"f", "i", "r", "e", "d">>,
    <<"c", "o", "n", "t", "r", "o", "v", "e", "r", "s", "y">>,
    <<"f", "r", "a", "u", "d">>,
    <<"l", "i", "e">>,
    <<"l", "y", "i", "n", "g">>,
    <<"r", "a", "c", "i", "s", "t">>,
    <<"r", "a", "c", "i", "s", "m">>,
    <<"s", "e", "x", "i", "s", "t">>,
    <<"a", "t", "t", "a", "c", "k">>,
    <<"s", "l", "a", "m">>,
    <<"b", "l", "a", "s", "t">>,
    <<"r", "e", "j", "e", "c", "t">>,
    <<"o", "p", "p", "o", "s", "e">>,
    <<"b", "l", "o", "c", "k">>,
    <<"p", "r", "o", "t", "e", "s", "t">>,
    <<"i", "l", "l", "e", "g", "a", "l">>,
    <<"c", "r", "i", "m", "e">>,
    <<"c", "r", "i", "m", "i", "n", "a", "l">>,
    <<"a", "b", "u", "s", "e">>,
    <<"h", "a", "t", "e">>,
    <<"w", "o", "r", "s", "t">>,
    <<"d", "i", "s", "a", "s", "t", "e", "r">>,
    <<"c", "o", "l", "l", "a", "p", "s", "e">>,
    <<"l", "o", "s", "s">>,
    <<"l", "o", "s", "e">>,
    <<"l", "o", "s", "i", "n", "g">>,
    <<"d", "e", "f", "e", "a", "t">>,
    <<"d", "r", "o", "p">>,
    <<"f", "a", "l", "l">>,
    <<"i", "n", "v", "e", "s", "t", "i", "g", "a", "t", "i", "o", "n">>,
    <<"p", "r", "o", "b", "e">>,
    <<"i", "n", "q", "u", "i", "r", "y">>,
    <<"c", "h", "a", "r", "g", "e", "d">>,
    <<"a", "r", "r", "e", "s", "t", "e", "d">>,
    <<"j", "a", "i", "l">>,
    <<"b", "a", "n">>,
    <<"p", "e", "n", "a", "l", "t", "y">>,
    <<"f", "i", "n", "e">>,
    <<"w", "a", "s", "t", "e">>,
    <<"d", "e", "b", "t">>,
    <<"d", "e", "f", "i", "c", "i", "t">>,
    <<"i", "n", "f", "l", "a", "t", "i", "o", "n">>,
    <<"c", "o", "s", "t", " ", "o", "f", " ", "l", "i", "v", "i", "n", "g">>,
    <<"h", "o", "u", "s", "i", "n", "g", " ", "c", "r", "i", "s", "i", "s">>,
    <<"b", "r", "o", "k", "e", "n", " ", "p", "r", "o", "m", "i", "s", "e">> >>

POSITIVE_KEYWORDS == <<
    <<"w", "i", "n">>,
    <<"v", "i", "c", "t", "o", "r", "y">>,
    <<"s", "u", "c", "c", "e", "s", "s">>,
    <<"b", "o", "o", "s", "t">>,
    <<"s", "u", "r", "g", "e">>,
    <<"l", "e", "a", "d">>,
    <<"a", "h", "e", "a", "d">>,
    <<"p", "o", "p", "u", "l", "a", "r">>,
    <<"s", "u", "p", "p", "o", "r", "t">>,
    <<"a", "p", "p", "r", "o", "v", "e">>,
    <<"r", "e", "f", "o", "r", "m">>,
    <<"i", "n", "v", "e", "s", "t">>,
    <<"g", "r", "o", "w", "t", "h">>,
    <<"p", "l", "a", "n">>,
    <<"p", "o", "l", "i", "c", "y">>,
    <<"a", "n", "n", "o", "u", "n", "c", "e">>,
    <<"l", "a", "u", "n", "c", "h">>,
    <<"p", "l", "e", "d", "g", "e">>,
    <<"p", "r", "o", "m", "i", "s", "e">>,
    <<"i", "m", "p", "r", "o", "v", "e">>,
    <<"b", "e", "t", "t", "e", "r">>,
    <<"b", "e", "s", "t">>,
    <<"s", "t", "r", "o", "n", "g">>,
    <<"u", "n", "i", "t", "e">>,
    <<"b", "u", "i", "l", "d">>,
    <<"f", "u", "n", "d">>,
    <<"f", "u", "n", "d", "i", "n", "g">>,
    <<"d", "e", "l", "i", "v", "e", "r">>,
    <<"a", "c", "h", "i", "e", "v", "e">>,
    <<"p", "r", "o", "g", "r", "e", "s", "s">>,
    <<"n", "e", "w">>,
    <<"i", "n", "n", "o", "v", "a", "t", "i", "o", "n">>,
    <<"o", "p", "p", "o", "r", "t", "u", "n", "i", "t", "y">>,
    <<"b", "e", "n", "e", "f", "i", "t">>,
    <<"p", "r", "o", "t", "e", "c", "t">>,
    <<"s", "a", "v", "e">> >>

UpperCase == <<"A", "B", "C", "D", "E", "F", "G", "H", "I", "J", "K", "L", "M", "N", "O", "P", "Q", "R", "S", "T", "U", "V", "W", "X", "Y", "Z">>
LowerCase == <<"a", "b", "c", "d", "e", "f", "g", "h", "i", "j", "k", "l", "m", "n", "o", "p", "q", "r", "s", "t", "u", "v", "w", "x", "y", "z">>

\* str.lower(), character by character
LowerChar(c) ==
    IF \E k \in 1..Len(UpperCase) : UpperCase[k] = c
    THEN LowerCase[CHOOSE k \in 1..Len(UpperCase) : UpperCase[k] = c]
    ELSE c

Lower(q) == [k \in 1..Len(q) |-> LowerChar(q[k])]

\* kw in q
Contains(q, kw) ==
    \E k \in 0..(Len(q) - Len(kw)) : SubSeq(q, k + 1, k + Len(kw)) = kw

\* sum(1 for kw in keywords if kw in q)
RECURSIVE Score(_, _)
Score(keywords, q) ==
    IF keywords = << >> THEN 0
    ELSE (IF Contains(q, Head(keywords)) THEN 1 ELSE 0) + Score(Tail(keywords), q)

\* mutant: the query is matched as typed, without lower()
classify_queryCaseSensitive(query) ==
    LET neg_score == Score(NEGATIVE_KEYWORDS, query)
        pos_score == Score(POSITIVE_KEYWORDS, query)
    IN  IF neg_score > pos_score THEN "negative"
        ELSE IF pos_score > neg_score THEN "positive"
        ELSE "neutral"

classify_query(query) ==
    LET q == Lower(query)
        neg_score == Score(NEGATIVE_KEYWORDS, q)
        pos_score == Score(POSITIVE_KEYWORDS, q)
    IN  IF neg_score > pos_score THEN "negative"
        ELSE IF pos_score > neg_score THEN "positive"
        ELSE "neutral"

-----------------------------------------------------------------------------
(* The queries handed to classify_query: up to MaxWords words of a small   *)
(* vocabulary, joined by single spaces.                                     *)

Vocabulary == <<
    <<"l", "a", "b", "o", "r">>,
    <<"g", "o", "v", "e", "r", "n", "m", "e", "n", "t">>,
    <<"s", "c", "a", "n", "d", "a", "l">>,
    <<"A", "l", "b", "a", "n", "e", "s", "e">>,
    <<"f", "u", "n", "d", "i", "n", "g">>,
    <<"c", "r", "i", "s", "i", "s">>,
    <<"h", "o", "u", "s", "i", "n", "g">>,
    <<"b", "r", "o", "k", "e", "n">>,
    <<"p", "r", "o", "m", "i", "s", "e">>,
    <<"N", "e", "w">> >>

RECURSIVE Join(_)
Join(ws) ==
    IF ws = << >> THEN << >>
    ELSE IF Len(ws) = 1 THEN ws[1]
    ELSE ws[1] \o <<" ">> \o Join(Tail(ws))

Queries ==
    {Join(ws) : ws \in UNION {[1..n -> Range(Vocabulary)] : n \in 0..MaxWords}}

ClassifyInit ==
    /\ entities = << >>
    /\ pc = "classify"
    /\ iot_data = EmptyDict
    /\ FetchIdle
    /\ NewsIdle
    /\ PipelineIdle
    /\ BatchIdle
    /\ SpikesIdle
    /\ query_arg \in Queries
    /\ label = ""
    /\ rq_data = None
    /\ results = None
    /\ WeeklyIdle

\* run_sentiment_analysis, line 78
Classify ==
    /\ pc = "classify"
    /\ label' = classify_query(query_arg)
    /\ pc' = "classified"
    /\ UNCHANGED <<entities, iot_data, fetchVars, spikes, query_arg, rq_data, results, weekVars, newsVars, fsVars, batchVars>>

ClassifyNext == Classify

SpecClassify == ClassifyInit /\ [][ClassifyNext]_vars

-----------------------------------------------------------------------------
(* Claims about classify_query, under SpecClassify *)

Classified == pc = "classified"

\* the keywords of a lexicon that occur in text, counted on the lexicon's
\* positions
Occurring(keywords, text) ==
    {n \in 1..Len(keywords) :
        \E from \in 1..(Len(text) - Len(keywords[n]) + 1) :
            \A k \in 1..Len(keywords[n]) : text[from + k - 1] = keywords[n][k]}

NegCount(q) == Cardinality(Occurring(NEGATIVE_KEYWORDS, Lower(q)))
PosCount(q) == Cardinality(Occurring(POSITIVE_KEYWORDS, Lower(q)))

\* C6: classify_query returns exactly one of positive, negative, neutral:
\* negative iff more negative-list than positive-list keywords occur as
\* substrings of the lowercased query, positive iff fewer, and neutral when
\* the two counts are equal (0/0 included).
C6_MajorityLabel ==
    Classified
    => LET neg == NegCount(query_arg)
           pos == PosCount(query_arg)
       IN  /\ label \in {"positive", "negative", "neutral"}
           /\ label = "negative" <=> neg > pos
           /\ label = "positive" <=> neg < pos
           /\ label = "neutral" <=> neg = pos

\* "broken promise New": one negative keyword (broken promise) against two
\* positive ones (promise, new, the latter typed with a capital)
C6_Witness ==
    /\ Classified
    /\ query_arg = Join(<<Vocabulary[8], Vocabulary[9], Vocabulary[10]>>)
    /\ NegCount(query_arg) = 1
    /\ PosCount(query_arg) = 2
    /\ label = "positive"

C6_WitnessTie ==
    /\ Classified
    /\ NegCount(query_arg) = 1
    /\ PosCount(query_arg) = 1
    /\ label = "neutral"

C6_WitnessScenario ==
    /\ Classified
    /\ query_arg = Join(<<Vocabulary[1], Vocabulary[2], Vocabulary[3]>>)
    /\ label = "negative"

-----------------------------------------------------------------------------
(* analyse_sentiment.py: run_sentiment_analysis.  sentiment_score is kept  *)
(* in hundredths: round(x, 2) of the source is the integer Round(100 * x).  *)
(* The display name "party" of a result is left out.                        *)

\* [q.get("query", "") for q in items]
QueryTexts(items) == [k \in 1..Len(items) |-> Get(items[k], "query", << >>)]

\* mutant: the empty texts are not filtered out
NonEmptyUnfiltered(qs) == qs

\* (q for q in all_queries if q)
RECURSIVE NonEmpty(_)
NonEmpty(qs) ==
    IF qs = << >> THEN << >>
    ELSE (IF Head(qs) # << >> THEN <<Head(qs)>> ELSE << >>) \o NonEmpty(Tail(qs))

\* mutant: texts that differ only in case count as one
RECURSIVE DedupeIgnoringCase(_)
DedupeIgnoringCase(qs) ==
    IF qs = << >> THEN << >>
    ELSE LET front == DedupeIgnoringCase(SubSeq(qs, 1, Len(qs) - 1))
             last == qs[Len(qs)]
         IN  IF \E k \in DOMAIN front : Lower(front[k]) = Lower(last)
             THEN front ELSE Append(front, last)

\* list(dict.fromkeys(qs)): first occurrences, in order
RECURSIVE Dedupe(_)
Dedupe(qs) ==
    IF qs = << >> THEN << >>
    ELSE LET front == Dedupe(SubSeq(qs, 1, Len(qs) - 1))
             last == qs[Len(qs)]
         IN  IF last \in Range(front) THEN front ELSE Append(front, last)

\* lines 76-79
ClassifyAll(qs) ==
    [k \in 1..Len(qs) |-> [query |-> qs[k], sentiment |-> classify_query(qs[k])]]

\* mutant: the neutral queries are not counted
TallyWithoutNeutral(classified) ==
    [s \in {"positive", "negative", "neutral"} |->
        IF s = "neutral" THEN 0
        ELSE Cardinality({k \in 1..Len(classified) : classified[k].sentiment = s})]

\* lines 82-86
Tally(classified) ==
    [s \in {"positive", "negative", "neutral"} |->
        Cardinality({k \in 1..Len(classified) : classified[k].sentiment = s})]

\* mutant: the division by the number of analysed queries is missing
SentimentScoreUndivided(counts, n) == 100 * (counts["positive"] - counts["negative"])

\* lines 88 and 93-95: total = n or 1; round((positive - negative) / total, 2)
SentimentScore(counts, n) ==
    Round(100 * (counts["positive"] - counts["negative"]), IF n = 0 THEN 1 ELSE n)

\* the body of the loop over the registry, lines 65-97
EntityResult(rq, code) ==
    LET party_queries == Get(rq, code, EmptyDict)
        all_queries == QueryTexts(Get(party_queries, "top", << >>))
                       \o QueryTexts(Get(party_queries, "rising", << >>))
        classified == ClassifyAll(Dedupe(NonEmpty(all_queries)))
        sentiment_counts == Tally(classified)
    IN  [queries_analysed |-> Len(classified),
         sentiment_counts |-> sentiment_counts,
         sentiment_score |-> SentimentScore(sentiment_counts, Len(classified)),
         classified_queries |-> classified]

\* None when related_queries.json does not exist, else one result per code
run_sentiment_analysis(codes, rq_file) ==
    IF rq_file = None THEN None
    ELSE Some([code \in Range(codes) |-> EntityResult(rq_file[1], code)])

-----------------------------------------------------------------------------
(* related_queries.json as fetch_related_queries writes it: per code a top *)
(* and a rising list of items, an item carrying a query text or none.      *)

ItemTexts == {
    <<"w", "i", "n">>,
    <<"S", "c", "a", "n", "d", "a", "l">>,
    <<"s", "c", "a", "n", "d", "a", "l">>,
    <<"v", "o", "t", "e">> }

\* an item without a "query" key reads as the empty text, as one with ""
QueryItems ==
    {[query |-> t, value |-> 100] : t \in ItemTexts \cup {<< >>}} \cup {[value |-> 100]}

\* the results of the entities are computed independently of each other:
\* registries of one and of two codes
SentRegistries == {<<"ALP">>, <<"ALP", "LNP">>}

NoQueries == [top |-> << >>, rising |-> << >>]

RECURSIVE SumOfSet(_, _)
SumOfSet(f, S) ==
    IF S = {} THEN 0
    ELSE LET x == CHOOSE y \in S : TRUE IN f[x] + SumOfSet(f, S \ {x})

ItemCount(rq) ==
    SumOfSet([c \in DOMAIN rq |-> Len(rq[c]["top"]) + Len(rq[c]["rising"])], DOMAIN rq)

SentimentInit ==
    /\ entities \in SentRegistries
    /\ pc = "sentiment"
    /\ iot_data = EmptyDict
    /\ FetchIdle
    /\ NewsIdle
    /\ PipelineIdle
    /\ BatchIdle
    /\ SpikesIdle
    /\ query_arg = << >>
    /\ label = ""
    /\ results = None
    /\ WeeklyIdle
    /\ \/ rq_data = None
       \/ \E present \in {Range(entities),
                           Range(entities) \ {entities[Len(entities)]},
                           Range(entities) \cup {AllCodes[Len(entities) + 1]}} :
            rq_data = Some([c \in present |-> NoQueries])

\* fetch_trends.py, fetch_related_queries: one more item in a list of a code
AddQuery ==
    /\ pc = "sentiment"
    /\ rq_data # None
    /\ ItemCount(rq_data[1]) < MaxQueryItems
    /\ \E c \in DOMAIN rq_data[1] \cap Range(entities) :
         \E which \in {"top", "rising"} : \E item \in QueryItems :
           rq_data' = Some([rq_data[1] EXCEPT ![c][which] = Append(@, item)])
    /\ UNCHANGED <<entities, pc, iot_data, fetchVars, spikes, query_arg, label, results, weekVars, newsVars, fsVars, batchVars>>

\* analyse_week, line 120
Analyse ==
    /\ pc = "sentiment"
    /\ results' = run_sentiment_analysis(entities, rq_data)
    /\ pc' = "analysed"
    /\ UNCHANGED <<entities, iot_data, fetchVars, spikes, query_arg, label, rq_data, weekVars, newsVars, fsVars, batchVars>>

SentimentNext == AddQuery \/ Analyse

SpecSentiment == SentimentInit /\ [][SentimentNext]_vars

-----------------------------------------------------------------------------
(* Claims about run_sentiment_analysis, under SpecSentiment *)

Analysed == pc = "analysed" /\ results # None

\* C7: the sentiment_score of every entity lies in [-1, 1].
C7_ScoreInRange ==
    Analysed
    => \A c \in DOMAIN results[1] :
         /\ results[1][c].sentiment_score >= -100
         /\ results[1][c].sentiment_score <= 100

\* three analysed queries, two of them negative: the score is -0.67
C7_Witness ==
    /\ Analysed
    /\ \E c \in DOMAIN results[1] :
         /\ results[1][c].queries_analysed = 3
         /\ results[1][c].sentiment_counts["negative"] = 2
         /\ results[1][c].sentiment_counts["positive"] = 0
         /\ results[1][c].sentiment_score = -67

\* the distinct non-empty query texts of a code in related_queries.json
TextsOf(rq, code) ==
    LET pq == Get(rq, code, NoQueries)
        items == pq["top"] \o pq["rising"]
    IN  {Get(items[k], "query", << >>) : k \in DOMAIN items} \ {<< >>}

\* C13: sentiment aggregation does not fail and degrades to zero: an entity
\* absent from the related-queries input, or whose top and rising lists are
\* empty or hold only empty query texts, gets queries_analysed = 0, the
\* three counts 0 and sentiment_score 0; otherwise sentiment_score is
\* (positive - negative) / queries_analysed rounded to 2 decimals.
C13_DegradesToZero ==
    /\ (pc = "analysed" /\ rq_data # None) => results # None
    /\ Analysed
       => \A c \in Range(entities) :
            LET r == results[1][c]
                n == r.queries_analysed
                diff == r.sentiment_counts["positive"] - r.sentiment_counts["negative"]
            IN  /\ n = Cardinality(TextsOf(rq_data[1], c))
                /\ r.sentiment_counts["positive"] + r.sentiment_counts["negative"]
                     + r.sentiment_counts["neutral"] = n
                /\ n = 0 => /\ \A s \in DOMAIN r.sentiment_counts :
                                 r.sentiment_counts[s] = 0
                            /\ r.sentiment_score = 0
                /\ n > 0 => /\ 2 * (100 * diff - n * r.sentiment_score) <= n
                            /\ 2 * (n * r.sentiment_score - 100 * diff) <= n

\* an entity whose lists hold two items, both without text: nothing is
\* analysed and the score is 0; elsewhere one positive and two negative
\* among three, -0.33
C13_Witness ==
    /\ Analysed
    /\ \E c \in Range(entities) \cap DOMAIN rq_data[1] :
         /\ Len(rq_data[1][c]["top"]) + Len(rq_data[1][c]["rising"]) = 2
         /\ \E k \in DOMAIN rq_data[1][c]["top"] :
              rq_data[1][c]["top"][k] = [query |-> << >>, value |-> 100]
         /\ results[1][c].queries_analysed = 0
         /\ results[1][c].sentiment_score = 0

C13_WitnessScore ==
    /\ Analysed
    /\ \E c \in Range(entities) :
         /\ results[1][c].queries_analysed = 3
         /\ results[1][c].sentiment_counts["positive"] = 1
         /\ results[1][c].sentiment_counts["negative"] = 2
         /\ results[1][c].sentiment_score = -33

\* the query texts of a code, top list first, then rising; an item without
\* text reads as the empty text
ItemsOf(rq, code) ==
    LET pq == Get(rq, code, NoQueries)
        items == pq["top"] \o pq["rising"]
    IN  [k \in DOMAIN items |-> Get(items[k], "query", << >>)]

\* the position of the first occurrence of a text
FirstPos(texts, t) ==
    CHOOSE k \in DOMAIN texts :
        texts[k] = t /\ \A j \in 1..(k - 1) : texts[j] # t

\* C26: for every entity, classified_queries holds each distinct non-empty
\* query text of the top list followed by the rising list exactly once,
\* texts compared exactly (case-sensitive), in order of first occurrence;
\* the duplicates are removed before the classification, so that a repeated
\* query counts once in the tallies.
C26_DistinctTextsOnceInOrder ==
    Analysed
    => \A c \in Range(entities) :
         LET texts == ItemsOf(rq_data[1], c)
             cq == results[1][c].classified_queries
             counts == results[1][c].sentiment_counts
         IN  /\ \A k \in DOMAIN cq : cq[k].query # << >> /\ cq[k].query \in Range(texts)
             /\ \A t \in Range(texts) \ {<< >>} : \E k \in DOMAIN cq : cq[k].query = t
             /\ \A m, n \in DOMAIN cq : cq[m].query = cq[n].query => m = n
             /\ \A m, n \in DOMAIN cq :
                  m < n => FirstPos(texts, cq[m].query) < FirstPos(texts, cq[n].query)
             /\ \A k \in DOMAIN cq : cq[k].sentiment = classify_query(cq[k].query)
             /\ counts["positive"] + counts["negative"] + counts["neutral"]
                  = Cardinality(Range(texts) \ {<< >>})

\* "Scandal" in the top list, "scandal" and "Scandal" again in the rising
\* list: "Scandal" and "scandal" are kept apart, the repetition is dropped
\* and two negative queries are counted
C26_Witness ==
    /\ Analysed
    /\ \E c \in Range(entities) :
         /\ ItemsOf(rq_data[1], c)
              = << <<"S", "c", "a", "n", "d", "a", "l">>,
                   <<"s", "c", "a", "n", "d", "a", "l">>,
                   <<"S", "c", "a", "n", "d", "a", "l">> >>
         /\ Len(rq_data[1][c]["top"]) = 1
         /\ Len(results[1][c].classified_queries) = 2
         /\ results[1][c].classified_queries[1].query = <<"S", "c", "a", "n", "d", "a", "l">>
         /\ results[1][c].classified_queries[2].query = <<"s", "c", "a", "n", "d", "a", "l">>
         /\ results[1][c].sentiment_counts["negative"] = 2

\* a text of the rising list that precedes, in classified_queries, nothing
\* of the top list: "vote" rising after "win" in top, with an empty text
\* between them
C26_WitnessOrder ==
    /\ Analysed
    /\ \E c \in Range(entities) :
         /\ ItemsOf(rq_data[1], c) = << <<"w", "i", "n">>, << >>, <<"v", "o", "t", "e">> >>
         /\ Len(rq_data[1][c]["rising"]) = 1
         /\ Len(results[1][c].classified_queries) = 2
         /\ results[1][c].classified_queries[2].query = <<"v", "o", "t", "e">>

\* the number of entries of classified_queries carrying a label
RECURSIVE CountLabel(_, _)
CountLabel(cq, s) ==
    IF cq = << >> THEN 0
    ELSE (IF Head(cq).sentiment = s THEN 1 ELSE 0) + CountLabel(Tail(cq), s)

\* C30: in every sentiment result positive + negative + neutral equals
\* queries_analysed, which equals the length of classified_queries, and
\* each of the three counts is the number of entries of classified_queries
\* carrying that label.
C30_CountsAddUp ==
    Analysed
    => \A c \in DOMAIN results[1] :
         LET r == results[1][c]
         IN  /\ DOMAIN r.sentiment_counts = {"positive", "negative", "neutral"}
             /\ r.sentiment_counts["positive"] + r.sentiment_counts["negative"]
                  + r.sentiment_counts["neutral"] = r.queries_analysed
             /\ r.queries_analysed = Len(r.classified_queries)
             /\ \A s \in DOMAIN r.sentiment_counts :
                  r.sentiment_counts[s] = CountLabel(r.classified_queries, s)

\* one query of each label: win, scandal, vote
C30_Witness ==
    /\ Analysed
    /\ \E c \in DOMAIN results[1] :
         /\ results[1][c].queries_analysed = 3
         /\ Len(results[1][c].classified_queries) = 3
         /\ results[1][c].sentiment_counts["positive"] = 1
         /\ results[1][c].sentiment_counts["negative"] = 1
         /\ results[1][c].sentiment_counts["neutral"] = 1

\* two results, one of them without any query
C30_WitnessEmpty ==
    /\ Analysed
    /\ \E c, d \in DOMAIN results[1] :
         /\ results[1][c].queries_analysed = 0
         /\ results[1][c].classified_queries = << >>
         /\ results[1][d].queries_analysed = 2

-----------------------------------------------------------------------------
(* The floats of weekly_analysis.py.  A Python float is an IEEE 754 double: *)
(* sign * m * 2^e with a significand m of 53 bits, every operation giving   *)
(* the double nearest to its exact result, halves to the even significand. *)
(* The significands and their products do not fit a machine integer and    *)
(* are kept as naturals of any size: a sequence of limbs, least first.      *)

LimbBits == 14
Limb == 2^LimbBits

LimbAt(a, k) == IF k \in 1..Len(a) THEN a[k] ELSE 0

RECURSIVE Trim(_)
Trim(a) == IF a # << >> /\ a[Len(a)] = 0 THEN Trim(SubSeq(a, 1, Len(a) - 1)) ELSE a

\* the limbs of a sum of columns, c carried in
RECURSIVE Carry(_, _)
Carry(cols, c) ==
    IF cols = << >>
    THEN (IF c = 0 THEN << >> ELSE <<c % Limb>> \o Carry(<< >>, c \div Limb))
    ELSE <<(Head(cols) + c) % Limb>>
         \o Carry(Tail(cols), (Head(cols) + c) \div Limb)

BigOf(cols) == Trim(Carry(cols, 0))

BigInt(n) == BigOf(<<n>>)

BigAdd(a, b) ==
    BigOf([k \in 1..(IF Len(a) > Len(b) THEN Len(a) ELSE Len(b)) |->
              LimbAt(a, k) + LimbAt(b, k)])

\* a - b for a >= b
RECURSIVE Borrow(_, _, _, _)
Borrow(a, b, k, c) ==
    IF k > Len(a) THEN << >>
    ELSE LET d == a[k] - LimbAt(b, k) - c
         IN  <<IF d < 0 THEN d + Limb ELSE d>>
             \o Borrow(a, b, k + 1, IF d < 0 THEN 1 ELSE 0)

BigSub(a, b) == Trim(Borrow(a, b, 1, 0))

BigLess(a, b) ==
    IF Len(a) # Len(b) THEN Len(a) < Len(b)
    ELSE \E k \in 1..Len(a) :
           /\ a[k] < b[k]
           /\ \A j \in (k + 1)..Len(a) : a[j] = b[j]

BigMul(a, b) ==
    BigOf([k \in 1..(Len(a) + Len(b)) |->
              Sum([j \in 1..Len(a) |-> a[j] * LimbAt(b, k + 1 - j)])])

\* a * 2^k
BigShl(a, k) ==
    BigOf([j \in 1..(Len(a) + k \div LimbBits + 1) |->
              LimbAt(a, j - k \div LimbBits) * 2^(k % LimbBits)])

\* floor(a / 2^k)
BigShr(a, k) ==
    LET q == k \div LimbBits
        r == k % LimbBits
    IN  IF Len(a) <= q THEN << >>
        ELSE Trim([j \in 1..(Len(a) - q) |->
                      (a[j + q] \div 2^r)
                      + (LimbAt(a, j + q + 1) % 2^r) * 2^(LimbBits - r)])

RECURSIVE SmallBitLen(_)
SmallBitLen(n) == IF n = 0 THEN 0 ELSE 1 + SmallBitLen(n \div 2)

BitLen(a) ==
    IF a = << >> THEN 0 ELSE LimbBits * (Len(a) - 1) + SmallBitLen(a[Len(a)])

\* bit k of a, bit 0 the lowest
BitAt(a, k) == (LimbAt(a, k \div LimbBits + 1) \div 2^(k % LimbBits)) % 2

\* one step of the long division: r2 is the remainder so far with the next
\* bit of the dividend brought down
DivOne(d, r2) ==
    IF BigLess(r2, d) THEN [q |-> << >>, r |-> r2]
    ELSE [q |-> <<1>>, r |-> BigSub(r2, d)]

\* the quotient bits found so far followed by those of the bits below
DivGlue(q, right, bits) == [q |-> BigAdd(BigShl(q, bits), right.q), r |-> right.r]

\* long division over the bits hi down to lo of n, r being the remainder
\* left by the bits above hi: the upper half of the bits, then the lower
\* half with the remainder the upper half left
RECURSIVE DivRange(_, _, _, _, _)
DivJoin(n, d, left, mid, lo) ==
    DivGlue(left.q, DivRange(n, d, left.r, mid, lo), mid - lo + 1)

DivRange(n, d, r, hi, lo) ==
    IF hi = lo THEN DivOne(d, BigAdd(BigShl(r, 1), BigInt(BitAt(n, hi))))
    ELSE DivJoin(n, d, DivRange(n, d, r, hi, (hi + lo) \div 2 + 1), (hi + lo) \div 2, lo)

\* the number of zero bits below the lowest set bit of a # 0
RECURSIVE SmallLowZeros(_)
SmallLowZeros(n) == IF n % 2 = 1 THEN 0 ELSE 1 + SmallLowZeros(n \div 2)

RECURSIVE LowZeros(_)
LowZeros(a) ==
    IF Head(a) = 0 THEN LimbBits + LowZeros(Tail(a)) ELSE SmallLowZeros(Head(a))

\* limbs 1..k of floor(a / d) for a single limb d, rem carried down
RECURSIVE ShortDiv(_, _, _, _)
ShortDiv(a, d, k, rem) ==
    IF k = 0 THEN << >>
    ELSE ShortDiv(a, d, k - 1, (rem * Limb + a[k]) % d)
         \o <<(rem * Limb + a[k]) \div d>>

\* floor(n / d) for d # 0, d1 and n1 being d and n without the low zero
\* bits of d.  A divisor that is one limb times a power of two is divided
\* by limb-wise; otherwise the bits of n above the length of d make the
\* first remainder and the rest are brought down one at a time
BigDivParts(n, d, d1, n1, k0) ==
    IF Len(d1) = 1 THEN Trim(ShortDiv(n1, d1[1], Len(n1), 0))
    ELSE IF k0 <= 0 THEN << >>
    ELSE DivRange(n, d, BigShr(n, k0), k0 - 1, 0).q

BigDivShifted(n, d, z) ==
    BigDivParts(n, d, BigShr(d, z), BigShr(n, z), BitLen(n) - BitLen(d) + 1)

BigDiv(n, d) == BigDivShifted(n, d, LowZeros(d))

WithRemainder(n, d, q) == <<q, BigSub(n, BigMul(q, d))>>

\* <<floor(n / d), n mod d>>
BigDivMod(n, d) == WithRemainder(n, d, BigDiv(n, d))

\* n = q * 2^k + r is rounded up: r is above the half, or it is the half
\* and something was cut below it or q is odd
RoundsUp(q, r, half, sticky) ==
    \/ BigLess(half, r)
    \/ r = half /\ (sticky \/ LimbAt(q, 1) % 2 = 1)

Normal(q1, e) ==
    IF BitLen(q1) > 53 THEN [m |-> BigShr(q1, 1), e |-> e + 1]
    ELSE [m |-> q1, e |-> e]

RoundLong(n, e, sticky, k, q) ==
    Normal(IF RoundsUp(q, BigSub(n, BigShl(q, k)), BigShl(<<1>>, k - 1), sticky)
           THEN BigAdd(q, <<1>>) ELSE q,
           e + k)

RoundBits(n, e, sticky, len) ==
    IF len <= 53 THEN [m |-> BigShl(n, 53 - len), e |-> e - (53 - len)]
    ELSE RoundLong(n, e, sticky, len - 53, BigShr(n, len - 53))

\* the double nearest to n * 2^e, or to a value between n * 2^e and
\* (n + 1) * 2^e when sticky: [m, e] with m of exactly 53 bits, m = 0 for 0
RoundNearestEven(n, e, sticky) ==
    IF n = << >> THEN [m |-> << >>, e |-> 0]
    ELSE RoundBits(n, e, sticky, BitLen(n))

Signed(sign, x) == [sign |-> sign, m |-> x.m, e |-> x.e]

\* float(n) of an integer n
Double(n) ==
    Signed(IF n < 0 THEN -1 ELSE 1,
           RoundNearestEven(BigInt(IF n < 0 THEN 0 - n ELSE n), 0, FALSE))

IsZero(x) == x.m = << >>

\* x * y
FMul(x, y) == Signed(x.sign * y.sign, RoundNearestEven(BigMul(x.m, y.m), x.e + y.e, FALSE))

FDivRounded(x, y, qr) ==
    Signed(x.sign * y.sign, RoundNearestEven(qr[1], x.e - y.e - 56, qr[2] # << >>))

\* x / y for y # 0
FDiv(x, y) == FDivRounded(x, y, BigDivMod(BigShl(x.m, 56), y.m))

\* x + y for x # 0 and y # 0, a and b their significands at the exponent e
FAddAligned(x, y, e, a, b) ==
    IF x.sign # y.sign /\ a = b THEN [sign |-> 1, m |-> << >>, e |-> 0]
    ELSE Signed(IF x.sign # y.sign /\ BigLess(a, b) THEN y.sign ELSE x.sign,
                RoundNearestEven(IF x.sign = y.sign THEN BigAdd(a, b)
                                 ELSE IF BigLess(a, b) THEN BigSub(b, a)
                                 ELSE BigSub(a, b),
                                 e, FALSE))

FAddAt(x, y, e) == FAddAligned(x, y, e, BigShl(x.m, x.e - e), BigShl(y.m, y.e - e))

\* x + y
FAdd(x, y) ==
    IF IsZero(x) THEN y
    ELSE IF IsZero(y) THEN x
    ELSE FAddAt(x, y, IF x.e < y.e THEN x.e ELSE y.e)

\* x - y
FSub(x, y) == FAdd(x, Signed(0 - y.sign, y))

\* the result is below 2^28 in every use
FRoundQuotient(x, n, k, q) ==
    x.sign * (LimbAt(q, 1) + Limb * LimbAt(q, 2)
              + (IF RoundsUp(q, BigSub(n, BigShl(q, k)), BigShl(<<1>>, k - 1), FALSE)
                 THEN 1 ELSE 0))

FRoundScaled(x, n, k) == FRoundQuotient(x, n, k, BigShr(n, k))

\* round(x, ndigits) * 10^ndigits: the integer nearest to the exact value
\* of the double x times 10^ndigits, halves to even
FRound(x, ndigits) ==
    IF IsZero(x) THEN 0
    ELSE FRoundScaled(x, BigMul(x.m, BigInt(10^ndigits)), 0 - x.e)

\* num / den is exactly a half: k + 1/2 for an integer k
IsHalf(num, den) == (2 * num) % den = 0 /\ ((2 * num) \div den) % 2 = 1

\* sum(...) / len(...) as the float the source holds
FloatOf(frac) == FDiv(Double(frac.num), Double(frac.den))

\* lines 56-58 in floats, in tenths of a percent
FloatMomentum(avg, prev) ==
    FRound(FMul(FDiv(FSub(FloatOf(avg), FloatOf(prev)), FloatOf(prev)),
                Double(100)), 1)

\* the literals 0.7 and 0.3: the doubles nearest to 7 / 10 and to 3 / 10
Float07 == FDiv(Double(7), Double(10))
Float03 == FDiv(Double(3), Double(10))

\* lines 77-79 in floats, in thousandths; the sentiment is in hundredths
FloatCombined(avg, max_interest, sentiment) ==
    LET norm_interest == FDiv(FloatOf(avg), FloatOf(max_interest))
        norm_sentiment ==
            FDiv(FAdd(FDiv(Double(sentiment), Double(100)), Double(1)), Double(2))
    IN  FRound(FAdd(FMul(Float07, norm_interest),
                    FMul(Float03, norm_sentiment)), 3)

-----------------------------------------------------------------------------
(* weekly_analysis.py: determine_winner.  An average is kept as the exact  *)
(* fraction [num, den] of its sum and its count; avg_interest and          *)
(* momentum_pct are in tenths, sentiment scores in hundredths and combined *)
(* scores in thousandths.  The rounding errors of the floats are far below *)
(* the distance of such a fraction from a rounding boundary unless it lies *)
(* on the boundary: there the floats decide, elsewhere the exact fraction  *)
(* rounds as the float does.                                               *)

Frac(n, d) == [num |-> n, den |-> d]
FracLess(a, b) == a.num * b.den < b.num * a.den

\* mutant: the current window is the whole series
Last7All(records) == records

\* records[-7:] if len(records) >= 7 else records
Last7(records) ==
    IF Len(records) >= 7 THEN SubSeq(records, Len(records) - 6, Len(records))
    ELSE records

\* mutant: the previous window is taken whenever 7 records exist, records[-14:-7]
\* of a shorter list being whatever precedes the last 7
Prev7Eager(records) ==
    IF Len(records) >= 7
    THEN SubSeq(records, IF Len(records) >= 14 THEN Len(records) - 13 ELSE 1,
                Len(records) - 7)
    ELSE << >>

\* records[-14:-7] if len(records) >= 14 else []
Prev7(records) ==
    IF Len(records) >= 14 THEN SubSeq(records, Len(records) - 13, Len(records) - 7)
    ELSE << >>

\* sum(r.get(code, 0) for r in window)
WindowSum(window, code) == Sum(ValuesOf(window, code))

\* line 40
AvgInterest(records, code) ==
    LET last_7 == Last7(records)
    IN  Frac(WindowSum(last_7, code), IF Len(last_7) > 1 THEN Len(last_7) ELSE 1)

\* lines 46-49
PrevAvg(records, code) ==
    LET prev_7 == Prev7(records)
    IN  IF prev_7 # << >> THEN Frac(WindowSum(prev_7, code), Len(prev_7))
        ELSE Frac(0, 1)

\* lines 54-59, in tenths of a percent
Momentum(avg, prev) ==
    LET num == 1000 * (avg.num * prev.den - prev.num * avg.den)
        den == avg.den * prev.num
    IN  IF prev.num <= 0 THEN 0
        ELSE IF IsHalf(num, den) THEN FloatMomentum(avg, prev)
        ELSE Round(num, den)

\* mutant: among tied codes the last one of the registry wins
LastMaxFrac(codes, key) ==
    codes[CHOOSE k \in 1..Len(codes) :
            /\ \A j \in 1..Len(codes) : ~FracLess(key[codes[k]], key[codes[j]])
            /\ \A j \in (k + 1)..Len(codes) : FracLess(key[codes[j]], key[codes[k]])]

\* max(codes, key=...): the first code, in registry order, that no code beats
FirstMaxFrac(codes, key) ==
    codes[CHOOSE k \in 1..Len(codes) :
            /\ \A j \in 1..Len(codes) : ~FracLess(key[codes[k]], key[codes[j]])
            /\ \A j \in 1..(k - 1) : FracLess(key[codes[j]], key[codes[k]])]

FirstMax(codes, key) ==
    codes[CHOOSE k \in 1..Len(codes) :
            /\ \A j \in 1..Len(codes) : key[codes[k]] >= key[codes[j]]
            /\ \A j \in 1..(k - 1) : key[codes[j]] < key[codes[k]]]

\* lines 66-70
SentimentOf(sdata, code) ==
    IF code \in DOMAIN sdata THEN Get(sdata[code], "sentiment_score", 0) ELSE 0

\* mutant: the averages are normalised by that of the first entity
MaxInterestOfFirst(codes, avg) ==
    LET m == avg[codes[1]]
    IN  IF m.num = 0 THEN Frac(1, 1) ELSE m

\* max(avg_interest.values()) or 1
MaxInterest(codes, avg) ==
    LET m == avg[FirstMaxFrac(codes, avg)]
    IN  IF m.num = 0 THEN Frac(1, 1) ELSE m

\* mutant: the sentiment is weighted as it is, not mapped from -1..1 to 0..1
CombinedRawSentiment(avg, max_interest, sentiment) ==
    Round(700 * avg.num * max_interest.den
            + 3 * sentiment * avg.den * max_interest.num,
          avg.den * max_interest.num)

\* lines 77-79: round(0.7 * avg / max + 0.3 * (sentiment + 1) / 2, 3)
Combined(avg, max_interest, sentiment) ==
    LET num == 1400 * avg.num * max_interest.den
               + 3 * (sentiment + 100) * avg.den * max_interest.num
        den == 2 * avg.den * max_interest.num
    IN  IF IsHalf(num, den) THEN FloatCombined(avg, max_interest, sentiment)
        ELSE Round(num, den)

\* determine_winner raises TypeError: a record of the last or of the
\* previous seven holds a value that is not a number (sum, lines 40 and 47)
WinnerRaises(data, codes) ==
    LET records == Get(data, "data", << >>)
    IN  \E c \in Range(codes) :
          \/ NonNumeric \in Range(ValuesOf(Last7(records), c))
          \/ NonNumeric \in Range(ValuesOf(Prev7(records), c))

\* the summary text is left out
determine_winner(data, sdata, codes) ==
    LET records == Get(data, "data", << >>)
        last_7 == Last7(records)
        avg_interest == [c \in Range(codes) |-> AvgInterest(records, c)]
        prev_avg == [c \in Range(codes) |-> PrevAvg(records, c)]
        momentum == [c \in Range(codes) |-> Momentum(avg_interest[c], prev_avg[c])]
        sentiment_scores == [c \in Range(codes) |-> SentimentOf(sdata, c)]
        max_interest == MaxInterest(codes, avg_interest)
        combined_scores ==
            [c \in Range(codes) |->
                Combined(avg_interest[c], max_interest, sentiment_scores[c])]
    IN  [period |-> [start |-> IF last_7 # << >> THEN last_7[1]["date"] ELSE "N/A",
                     end |-> IF last_7 # << >> THEN last_7[Len(last_7)]["date"]
                             ELSE "N/A"],
         avg_interest |->
            [c \in Range(codes) |-> Round(10 * avg_interest[c].num, avg_interest[c].den)],
         momentum_pct |-> momentum,
         sentiment_scores |-> sentiment_scores,
         combined_scores |-> combined_scores,
         search_winner |-> FirstMaxFrac(codes, avg_interest),
         overall_winner |-> FirstMax(codes, combined_scores)]

-----------------------------------------------------------------------------
(* The inputs of determine_winner: a series in which every entity keeps    *)
(* one level over its first week, a second over its second week and 100    *)
(* afterwards, cut at any length; and per entity a sentiment result with a *)
(* score, one without, or none.                                             *)

FirstWeekVals == {0, 10}
SecondWeekVals == {0, 40, 80}

WeeklyRegistries == {SubSeq(AllCodes, 1, n) : n \in 1..MaxWeeklyEntities}

WeeklySeries(codes, n, first, second) ==
    [d \in 1..n |->
        [key \in {"date"} \cup Range(codes) |->
            IF key = "date" THEN d
            ELSE IF d <= 7 THEN first[key]
            ELSE IF d <= 14 THEN second[key]
            ELSE 100]]

SentimentEntries ==
    {[sentiment_score |-> x] : x \in {-100, -33, 50, 100}} \cup {[queries_analysed |-> 0]}

\* a series in which every entity reads 100 on every day, but for one entity
\* that reads 99 on the last day
CloseSeries(codes, n, who) ==
    [d \in 1..n |->
        [key \in {"date"} \cup Range(codes) |->
            IF key = "date" THEN d
            ELSE IF key = who /\ d = n THEN 99
            ELSE 100]]

SentimentInputs(codes) ==
    UNION {[present -> SentimentEntries] : present \in SUBSET Range(codes)}

WeeklyInit ==
    /\ entities \in WeeklyRegistries
    /\ pc = "weekly"
    /\ FetchIdle
    /\ NewsIdle
    /\ PipelineIdle
    /\ BatchIdle
    /\ SpikesIdle
    /\ SentimentIdle
    /\ analysis = None
    /\ sentiment_data \in SentimentInputs(entities)
    /\ \E n \in 0..MaxWeeklyDays :
         \/ \E first \in [Range(entities) -> FirstWeekVals] :
              \E second \in [Range(entities) -> SecondWeekVals] :
                iot_data = Result(WeeklySeries(entities, n, first, second))
         \/ \E who \in Range(entities) :
              /\ n >= 1
              /\ iot_data = Result(CloseSeries(entities, n, who))

\* run_weekly_analysis, line 139
DetermineWinner ==
    /\ pc = "weekly"
    /\ IF WinnerRaises(iot_data, entities)
       THEN /\ pc' = "raised"
            /\ UNCHANGED analysis
       ELSE /\ analysis' = Some(determine_winner(iot_data, sentiment_data, entities))
            /\ pc' = "determined"
    /\ UNCHANGED <<entities, iot_data, fetchVars, spikes, sentVars, sentiment_data, newsVars, fsVars, batchVars>>

WeeklyNext == DetermineWinner

SpecWeekly == WeeklyInit /\ [][WeeklyNext]_vars

-----------------------------------------------------------------------------
(* Claims about determine_winner, under SpecWeekly *)

Determined == pc = "determined"

\* the mean of code over records from..to is zero
ZeroOver(records, code, from, to) ==
    \A d \in from..to : Get(records[d], code, 0) = 0

\* C8: momentum_pct[e] is exactly 0 for every entity when the series has
\* fewer than 14 records, and for any entity whose previous-window average
\* is 0, whatever the current-window averages are.
C8_MomentumZero ==
    Determined
    => LET records == DataOf(iot_data)
           n == Len(records)
       IN  \A c \in Range(entities) :
             (n < 14 \/ ZeroOver(records, c, n - 13, n - 7))
             => analysis[1].momentum_pct[c] = 0

\* thirteen records whose first six read 10 and whose last seven average
\* more: still no momentum; elsewhere a zero previous week
C8_Witness ==
    /\ Determined
    /\ Len(DataOf(iot_data)) = 13
    /\ DataOf(iot_data)[1][entities[1]] = 10
    /\ analysis[1].avg_interest[entities[1]] > 300
    /\ analysis[1].momentum_pct[entities[1]] = 0

C8_WitnessZeroPrev ==
    /\ Determined
    /\ Len(DataOf(iot_data)) = 14
    /\ ZeroOver(DataOf(iot_data), entities[1], 1, 7)
    /\ analysis[1].avg_interest[entities[1]] = 800
    /\ analysis[1].momentum_pct[entities[1]] = 0

\* C9: for a non-empty registry, non-negative interest values and
\* sentiment scores in [-1, 1], every combined score lies in [0, 1], also
\* when every average is 0 (the maximum is then taken as 1).
C9_CombinedInUnitRange ==
    Determined
    => \A c \in Range(entities) :
         /\ analysis[1].combined_scores[c] >= 0
         /\ analysis[1].combined_scores[c] <= 1000

\* every average is 0 and a sentiment of 1.0 gives 0.3; elsewhere the top
\* score 1.0 is reached
C9_Witness ==
    /\ Determined
    /\ Len(DataOf(iot_data)) >= 7
    /\ \A c \in Range(entities) : analysis[1].avg_interest[c] = 0
    /\ Len(entities) = 2
    /\ analysis[1].sentiment_scores[entities[2]] = 100
    /\ analysis[1].combined_scores[entities[2]] = 300

C9_WitnessTop ==
    /\ Determined
    /\ \E c \in Range(entities) : analysis[1].combined_scores[c] = 1000

\* the sum of a code over the current window, the last (at most 7) records
CurrentSum(code) ==
    LET records == DataOf(iot_data)
        from == IF Len(records) >= 7 THEN Len(records) - 6 ELSE 1
    IN  SumOver(ValuesOf(records, code), from, Len(records))

\* the earliest position of the registry whose score no position exceeds
EarliestBest(score) ==
    CHOOSE k \in DOMAIN entities :
      /\ \A j \in DOMAIN entities : score[entities[j]] <= score[entities[k]]
      /\ \A j \in DOMAIN entities :
           score[entities[j]] = score[entities[k]] => k <= j

\* C16: search_winner is the first entity in registry order whose
\* current-window average interest equals the maximum average, and
\* overall_winner the first in registry order whose combined score equals
\* the maximum combined score; among tied entities the earliest wins.
C16_WinnersFirstInRegistryOrder ==
    Determined
    => /\ analysis[1].search_winner
            = entities[EarliestBest([c \in Range(entities) |-> CurrentSum(c)])]
       /\ analysis[1].overall_winner
            = entities[EarliestBest(analysis[1].combined_scores)]

\* two entities with the same positive average and the same combined
\* score: the first of the registry wins both; elsewhere the second entity
\* wins the search and the first wins overall
C16_Witness ==
    /\ Determined
    /\ Len(entities) = 2
    /\ CurrentSum(entities[1]) = CurrentSum(entities[2])
    /\ CurrentSum(entities[1]) > 0
    /\ analysis[1].combined_scores[entities[1]] = analysis[1].combined_scores[entities[2]]
    /\ analysis[1].search_winner = entities[1]
    /\ analysis[1].overall_winner = entities[1]

C16_WitnessSplit ==
    /\ Determined
    /\ Len(entities) = 2
    /\ analysis[1].search_winner = entities[2]
    /\ analysis[1].overall_winner = entities[1]

\* the number of records of the current window, the divisor of line 40
CurrentCount ==
    LET n == Len(DataOf(iot_data))
    IN  IF n >= 7 THEN 7 ELSE IF n >= 1 THEN n ELSE 1

\* max over the entities of the average interest, held as a fraction;
\* 1 when every average is 0
TopAverage ==
    LET best == CHOOSE c \in Range(entities) :
                  \A d \in Range(entities) : CurrentSum(d) <= CurrentSum(c)
    IN  IF CurrentSum(best) = 0 THEN Frac(1, 1)
        ELSE Frac(CurrentSum(best), CurrentCount)

\* the score of the entity's sentiment result, 0 when it has none
ScoreOrZero(c) ==
    IF c \in DOMAIN sentiment_data /\ "sentiment_score" \in DOMAIN sentiment_data[c]
    THEN sentiment_data[c]["sentiment_score"]
    ELSE 0

\* the exact value of 0.7 * (avg / max) + 0.3 * ((s + 1) / 2) in
\* thousandths, as a fraction
ExactCombined(c) ==
    Frac(1400 * CurrentSum(c) * TopAverage.den
           + 3 * (ScoreOrZero(c) + 100) * CurrentCount * TopAverage.num,
         2 * CurrentCount * TopAverage.num)

C24_WitnessNoSentiment ==
    /\ Determined
    /\ Len(entities) = 2
    /\ entities[2] \notin DOMAIN sentiment_data
    /\ CurrentSum(entities[1]) = 560
    /\ CurrentSum(entities[2]) = 280
    /\ analysis[1].combined_scores[entities[2]] = 500

\* a score exactly between two thousandths: three quarters of the top
\* average with sentiment -0.33 is 0.6255, and the floats give 0.625
C24_WitnessHalf ==
    /\ Determined
    /\ \E c \in Range(entities) :
         /\ IsHalf(ExactCombined(c).num, ExactCombined(c).den)
         /\ ScoreOrZero(c) = -33
         /\ 4 * CurrentSum(c) = 3 * TopAverage.num
         /\ analysis[1].combined_scores[c] = 625

\* the sum of a code over the previous window, the 7 records before the
\* last 7
PreviousSum(code) ==
    LET records == DataOf(iot_data)
    IN  SumOver(ValuesOf(records, code), Len(records) - 13, Len(records) - 7)

\* C25: the current window is the most recent 7 records (all of them when
\* fewer exist) and the previous window the 7 records immediately before
\* them, used only when at least 14 records exist, so the two never
\* overlap; avg_interest[e] is the mean of e over the current window, and
\* when the mean prev_avg[e] over the previous window is > 0,
\* momentum_pct[e] = round(100 * (avg_interest[e] - prev_avg[e]) / prev_avg[e], 1).
C25_WindowsAndMomentum ==
    Determined
    => LET records == DataOf(iot_data)
           n == Len(records)
       IN  /\ n >= 1 =>
                /\ analysis[1].period.start = records[IF n >= 7 THEN n - 6 ELSE 1]["date"]
                /\ analysis[1].period.end = records[n]["date"]
           /\ \A c \in Range(entities) :
                /\ IsNearest(analysis[1].avg_interest[c], 10 * CurrentSum(c), CurrentCount)
                /\ (n >= 14 /\ PreviousSum(c) > 0)
                   => IsNearest(analysis[1].momentum_pct[c],
                                1000 * (CurrentSum(c) - PreviousSum(c)),
                                PreviousSum(c))
                /\ n < 14 => analysis[1].momentum_pct[c] = 0

\* fifteen records: the current window is days 9 to 15 (six days at 40 and
\* one at 100), the previous one days 2 to 8 (six days at 10 and one at 40)
C25_Witness ==
    /\ Determined
    /\ Len(DataOf(iot_data)) = 15
    /\ analysis[1].period.start = 9
    /\ analysis[1].period.end = 15
    /\ CurrentSum(entities[1]) = 340
    /\ PreviousSum(entities[1]) = 100
    /\ analysis[1].avg_interest[entities[1]] = 486
    /\ analysis[1].momentum_pct[entities[1]] = 2400

\* a fall: 699 over the current window after 700 over the previous one
C25_WitnessFall ==
    /\ Determined
    /\ Len(DataOf(iot_data)) = 14
    /\ \E c \in Range(entities) :
         /\ CurrentSum(c) = 699
         /\ PreviousSum(c) = 700
         /\ analysis[1].momentum_pct[c] = -1

\* C29: when every entity has the same sentiment score, in particular
\* without any sentiment data, overall_winner equals search_winner for
\* every series: rounding the combined scores to 3 decimals never makes the
\* two winners differ.
C29_EqualSentimentSameWinner ==
    (Determined /\ \A c, d \in Range(entities) : ScoreOrZero(c) = ScoreOrZero(d))
    => analysis[1].overall_winner = analysis[1].search_winner

\* both entities have the sentiment -0.33; the first totals 699 over the
\* week, the second 700: both combined scores round to 0.8, the second
\* entity wins the search and the first wins overall
C29_RoundedTie ==
    /\ Determined
    /\ Len(entities) = 2
    /\ ScoreOrZero(entities[1]) = -33
    /\ ScoreOrZero(entities[2]) = -33
    /\ CurrentSum(entities[1]) = 699
    /\ CurrentSum(entities[2]) = 700
    /\ analysis[1].combined_scores[entities[1]] = 800
    /\ analysis[1].combined_scores[entities[2]] = 800
    /\ analysis[1].search_winner = entities[2]
    /\ analysis[1].overall_winner = entities[1]

\* without any sentiment data the winners agree on that series
C29_WitnessNoSentiment ==
    /\ Determined
    /\ Len(entities) = 2
    /\ sentiment_data = EmptyDict
    /\ CurrentSum(entities[1]) = 699
    /\ CurrentSum(entities[2]) = 700
    /\ analysis[1].search_winner = entities[2]
    /\ analysis[1].overall_winner = entities[2]

-----------------------------------------------------------------------------
(* A series with a malformed record: one value of one entity on one day is *)
(* not a number.                                                            *)

MalformedSeries(codes, n, day, code, base, level) ==
    [d \in 1..n |->
        [key \in {"date"} \cup Range(codes) |->
            IF key = "date" THEN d
            ELSE IF d = day /\ key = code THEN NonNumeric
            ELSE IF d <= ROLLING_WINDOW THEN base ELSE level]]

MalformedInit ==
    /\ entities = ExampleRegistry
    /\ pc \in {"spikes", "weekly"}
    /\ \E n \in 1..MaxWeeklyDays : \E day \in 1..n : \E code \in Range(entities) :
         \E base \in {0, 10} : \E level \in {5, 40} :
           iot_data = Result(MalformedSeries(entities, n, day, code, base, level))
    /\ FetchIdle
    /\ SpikesIdle
    /\ SentimentIdle
    /\ WeeklyIdle
    /\ NewsIdle
    /\ PipelineIdle
    /\ BatchIdle

MalformedNext == DetectSpikes \/ DetermineWinner

SpecMalformed == MalformedInit /\ [][MalformedNext]_vars

-----------------------------------------------------------------------------
(* Claims about malformed records, under SpecMalformed *)

IsMalformed(record) == \E c \in Range(entities) : record[c] = NonNumeric

\* the series without its malformed records
WithoutMalformed(data) ==
    Result(SelectSeq(DataOf(data), LAMBDA r : ~IsMalformed(r)))

\* C14: a daily record with a non-numeric interest value is skipped as a
\* single offending record and the others are still processed:
\* detect_spikes and determine_winner complete, with the result computed
\* from the other records, instead of raising.
C14_MalformedRecordSkipped ==
    /\ pc # "raised"
    /\ Detected => spikes = detect_spikes(WithoutMalformed(iot_data), entities)
    /\ Determined
       => analysis = Some(determine_winner(WithoutMalformed(iot_data),
                                           sentiment_data, entities))

\* detect_spikes raised on a series of 8 records whose third is malformed;
\* determine_winner raised on one whose last record is
C14_DetectRaised ==
    /\ pc = "raised"
    /\ spikes = << >>
    /\ analysis = None
    /\ Len(DataOf(iot_data)) = 8
    /\ IsMalformed(DataOf(iot_data)[3])
    /\ DetectRaises(iot_data, entities)

C14_WinnerRaised ==
    /\ pc = "raised"
    /\ IsMalformed(DataOf(iot_data)[Len(DataOf(iot_data))])
    /\ WinnerRaises(iot_data, entities)
    /\ ~DetectRaises(iot_data, entities)

-----------------------------------------------------------------------------
(* The components that turn input artifacts into output artifacts *)

ComponentsInit == NewsInit \/ SentimentInit \/ WeeklyInit

ComponentsNext == NewsNext \/ SentimentNext \/ WeeklyNext

SpecComponents == ComponentsInit /\ [][ComponentsNext]_vars

-----------------------------------------------------------------------------
(* Claims about re-running the components, under SpecComponents *)

-----------------------------------------------------------------------------
(* The pipeline on the data directory: main of fetch_trends, detect_spikes *)
(* and weekly_analysis, run one after the other by each pipeline run.      *)
(* data/raw and data/processed map a date to the files saved under it;     *)
(* every main asks the clock for today when it runs.  A run keeps what its *)
(* mains held in their locals: the snapshot it fetched and its date, the   *)
(* directory each later step read (latest) and wrote (out_dir), and what   *)
(* the step returned.                                                       *)

FlatSeries ==
    [d \in 1..8 |->
        [key \in {"date", "ALP", "LNP"} |-> IF key = "date" THEN d ELSE 10]]

\* what the provider may return to a fetch
Snapshots == {Result(ExampleSeries), Result(FlatSeries)}

Max(S) == CHOOSE x \in S : \A y \in S : y <= x

\* sorted(d for d in DIR.iterdir() if d.is_dir())[-1]
Latest(dirs) == Max(DOMAIN dirs)

\* the file is written into the directory of the date, made if missing
WriteFile(dirs, date, name, content) ==
    [d \in DOMAIN dirs \cup {date} |->
        IF d = date
        THEN Update(Get(dirs, date, EmptyDict), [f \in {name} |-> content])
        ELSE dirs[d]]

\* run_spike_detection on a raw directory without news.json
SpikesOfSnapshot(iot, codes) == match_news_to_spikes(detect_spikes(iot, codes), EmptyDict)

\* run_weekly_analysis without sentiment_analysis.json: None without data
WeeklyOfSnapshot(iot, codes) ==
    IF DataOf(iot) = << >> THEN None
    ELSE Some(determine_winner(iot, EmptyDict, codes))

NewRun ==
    [step |-> "fetch_trends", date |-> 0, fetched |-> EmptyDict,
     spikes_latest |-> 0, spikes_out_dir |-> 0, spikes |-> << >>,
     weekly_latest |-> 0, weekly_out_dir |-> 0, weekly |-> None]

PipelineInit ==
    /\ entities = ExampleRegistry
    /\ pc = "pipeline"
    /\ iot_data = EmptyDict
    /\ raw_dirs = EmptyDict
    /\ proc_dirs = EmptyDict
    /\ runs = [r \in 1..MaxRuns |-> NewRun]
    /\ clock = 1
    /\ FetchIdle
    /\ SpikesIdle
    /\ SentimentIdle
    /\ WeeklyIdle
    /\ NewsIdle
    /\ BatchIdle

\* midnight
Tick ==
    /\ pc = "pipeline"
    /\ clock < MaxDay
    /\ clock' = clock + 1
    /\ UNCHANGED <<entities, pc, iot_data, fetchVars, spikes, sentVars, weekVars, newsVars,
                   raw_dirs, proc_dirs, runs, batchVars>>

\* fetch_trends.py, main and fetch_and_save: lines 229-235 and 216-220
FetchTrendsMain ==
    /\ pc = "pipeline"
    /\ \E r \in DOMAIN runs : \E snapshot \in Snapshots :
         /\ runs[r].step = "fetch_trends"
         /\ raw_dirs' = WriteFile(raw_dirs, clock, "interest_over_time.json", snapshot)
         /\ runs' = [runs EXCEPT ![r].step = "detect_spikes",
                                 ![r].date = clock,
                                 ![r].fetched = snapshot]
    /\ UNCHANGED <<entities, pc, iot_data, fetchVars, spikes, sentVars, weekVars, newsVars,
                   proc_dirs, clock, batchVars>>

\* detect_spikes.py, main and run_spike_detection: lines 138-149, 102-132
DetectSpikesMain ==
    /\ pc = "pipeline"
    /\ \E r \in DOMAIN runs :
         /\ runs[r].step = "detect_spikes"
         /\ LET latest == Latest(raw_dirs)
                out == SpikesOfSnapshot(raw_dirs[latest]["interest_over_time.json"],
                                        entities)
            IN  /\ proc_dirs' = WriteFile(proc_dirs, clock, "spikes.json", out)
                /\ runs' = [runs EXCEPT ![r].step = "weekly_analysis",
                                        ![r].spikes_latest = latest,
                                        ![r].spikes_out_dir = clock,
                                        ![r].spikes = out]
    /\ UNCHANGED <<entities, pc, iot_data, fetchVars, spikes, sentVars, weekVars, newsVars,
                   raw_dirs, clock, batchVars>>

\* weekly_analysis.py, main and run_weekly_analysis: lines 151-166, 133-148
WeeklyAnalysisMain ==
    /\ pc = "pipeline"
    /\ \E r \in DOMAIN runs :
         /\ runs[r].step = "weekly_analysis"
         /\ LET latest_raw == Latest(raw_dirs)
                out == WeeklyOfSnapshot(raw_dirs[latest_raw]["interest_over_time.json"],
                                        entities)
            IN  /\ proc_dirs' = IF out = None THEN proc_dirs
                                ELSE WriteFile(proc_dirs, clock,
                                               "weekly_analysis.json", out[1])
                /\ runs' = [runs EXCEPT ![r].step = "done",
                                        ![r].weekly_latest = latest_raw,
                                        ![r].weekly_out_dir = clock,
                                        ![r].weekly = out]
    /\ UNCHANGED <<entities, pc, iot_data, fetchVars, spikes, sentVars, weekVars, newsVars,
                   raw_dirs, clock, batchVars>>

PipelineNext == Tick \/ FetchTrendsMain \/ DetectSpikesMain \/ WeeklyAnalysisMain

SpecPipeline == PipelineInit /\ [][PipelineNext]_vars

-----------------------------------------------------------------------------
(* Claims about interleaved pipeline runs, under SpecPipeline *)

DetectedBy(r) == runs[r].step \in {"weekly_analysis", "done"}

\* the capture dates of the runs that fetched differ from that of run r
OwnDate(r) ==
    \A q \in DOMAIN runs \ {r} : runs[q].date # runs[r].date

\* C19: pipeline runs for different capture dates, interleaved in any
\* order, do not interfere: each run reads only the snapshot of its own
\* date and writes only the output directory of its date, and produces the
\* artifacts it produces when run alone, those of the snapshot it fetched.
C19_RunsDoNotInterfere ==
    \A r \in DOMAIN runs :
      /\ (DetectedBy(r) /\ OwnDate(r))
         => /\ runs[r].spikes_latest = runs[r].date
            /\ runs[r].spikes = SpikesOfSnapshot(runs[r].fetched, entities)
      /\ (runs[r].step = "done" /\ OwnDate(r))
         => /\ runs[r].weekly_latest = runs[r].date
            /\ runs[r].weekly = WeeklyOfSnapshot(runs[r].fetched, entities)

\* a run that captured day 1 detected its spikes in the snapshot another
\* run captured on day 2, and reports none where its own snapshot has one
C19_ReadOtherSnapshot ==
    \E r \in DOMAIN runs :
      /\ DetectedBy(r)
      /\ OwnDate(r)
      /\ runs[r].date = 1
      /\ runs[r].spikes_latest = 2
      /\ runs[r].spikes = << >>
      /\ SpikesOfSnapshot(runs[r].fetched, entities) # << >>

-----------------------------------------------------------------------------
(* The engine: each component runs on its own inputs *)

Init == FetchInit \/ SpikesInit \/ ClassifyInit \/ SentimentInit \/ WeeklyInit

Next == FetchNext \/ SpikesNext \/ ClassifyNext \/ SentimentNext \/ WeeklyNext

Spec == Init /\ [][Next]_vars

\* the components that produce mappings keyed by entity code
MappingsInit == FetchInit \/ SentimentInit \/ WeeklyInit

MappingsNext == FetchNext \/ SentimentNext \/ WeeklyNext

SpecMappings == MappingsInit /\ [][MappingsNext]_vars

-----------------------------------------------------------------------------
(* Claims about the mappings keyed by entity code, under SpecMappings *)

\* C10: every entity-keyed mapping produced has exactly the registry's
\* codes as keys: each merged daily record of fetch_interest_over_time, the
\* result of run_sentiment_analysis, and avg_interest, momentum_pct,
\* sentiment_scores and combined_scores of determine_winner; an entity
\* without upstream data is present with value 0.
C10_KeysAreRegistryCodes ==
    /\ Returned
       => \A k \in DOMAIN DataOf(iot_data) :
            /\ DOMAIN DataOf(iot_data)[k] = {"date"} \cup Range(entities)
            /\ \A c \in Range(entities) :
                 (\A b \in DOMAIN responses :
                     c \in Range(batches[b]) => IsEmptyDf(responses[b]))
                 => DataOf(iot_data)[k][c] = 0
    /\ Analysed
       => /\ DOMAIN results[1] = Range(entities)
          /\ \A c \in Range(entities) \ DOMAIN rq_data[1] :
               /\ results[1][c].queries_analysed = 0
               /\ results[1][c].sentiment_score = 0
    /\ Determined
       => /\ DOMAIN analysis[1].avg_interest = Range(entities)
          /\ DOMAIN analysis[1].momentum_pct = Range(entities)
          /\ DOMAIN analysis[1].sentiment_scores = Range(entities)
          /\ DOMAIN analysis[1].combined_scores = Range(entities)
          /\ \A c \in Range(entities) \ DOMAIN sentiment_data :
               analysis[1].sentiment_scores[c] = 0

\* seven entities, the second batch came back empty: the merged records
\* still carry its two codes, with value 0
C10_Witness ==
    /\ Returned
    /\ Len(entities) = 7
    /\ Len(responses) = 2
    /\ IsEmptyDf(responses[2])
    /\ Len(DataOf(iot_data)) = 2
    /\ entities[7] \notin DOMAIN all_dfs
    /\ DataOf(iot_data)[1][entities[7]] = 0

C10_WitnessSentiment ==
    /\ Analysed
    /\ Len(entities) = 2
    /\ entities[2] \notin DOMAIN rq_data[1]
    /\ AllCodes[3] \in DOMAIN rq_data[1] \/ results[1][entities[1]].queries_analysed = 2

C10_WitnessWeekly ==
    /\ Determined
    /\ Len(entities) = 2
    /\ DOMAIN sentiment_data = {entities[1]}
    /\ analysis[1].sentiment_scores[entities[2]] = 0

=============================================================================
